---- MODULE Spec2Model ----
(***************************************************************************)
(* Rent estimation and feature-impact engine of the real-estate dashboard: *)
(* the RentPredictor class and the PredictionTab component                 *)
(* (Prediction.jsx), the record normalizer processAndCleanData, the        *)
(* data-loading effect, the region canonicalizer, the region filter and    *)
(* the chart aggregations (Dashboard.jsx), and the regression variant of   *)
(* PredictionTab (src/unnamed/part_000).                                   *)
(*                                                                         *)
(* JavaScript values are modelled as tagged records, numbers as exact      *)
(* rationals (IEEE-754 rounding error is not modelled), strings as         *)
(* sequences of one-character tokens.  The characters of the mis-encoded   *)
(* umlauts are written as ASCII tokens:                                    *)
(*   "A~" = U+00C3, "1/4" = U+00BC, "OE" = U+0153, "PARA" = U+00B6,        *)
(*   "DASH" = U+2013, "CURR" = U+00A4, "LQUOT" = U+201E, "Y:" = U+0178,    *)
(*   "u:" "U:" "o:" "O:" "a:" "A:" "ss" = the repaired letters.            *)
(***************************************************************************)
EXTENDS Integers, Sequences, FiniteSets, TLC

VARIABLES
    isTrained,          \* RentPredictor.isTrained
    data,               \* RentPredictor.data
    featureImpacts,     \* RentPredictor.featureImpacts (un-rounded means)
    regionMultipliers,  \* RentPredictor.regionMultipliers
    coeffs,             \* RentPredictor.coeffs
    trainCalls,         \* number of train() calls made so far
    emptyOnly,          \* no train() call so far was given a non-empty array
    last,               \* the last call made on the engine and what it returned
    rawData,            \* Dashboard: rows delivered by the CSV reader
    currentYear,        \* Dashboard: new Date().getFullYear() at load time
    dashData,           \* Dashboard: the `data` state (cleaned records)
    loading,            \* Dashboard: the `loading` state
    tabValue,           \* Dashboard: the `tabValue` state (1 shows PredictionTab)
    tab,                \* PredictionTab: the state of the current render
    tabQueued,          \* PredictionTab: the state after the queued setState calls
    pending,            \* PredictionTab: effects still to run in the current commit
    canonIn,            \* canonicalizer: the name it is applied to
    canonOut,           \* canonicalizer: what the two cleanRegionName functions returned
    selectedStates,     \* Dashboard: the `selectedStates` state (region filter)
    picked,             \* Dashboard: the value of the last change event of the filter
    charts,             \* Dashboard: the chart data of the last render
    regressionModel,    \* window._regressionModel of the regression variant
    sessions            \* regression variant: the PredictionTab instances of the page

vars == <<isTrained, data, featureImpacts, regionMultipliers, coeffs,
          trainCalls, emptyOnly, last, rawData, currentYear, dashData, loading,
          tabValue, tab, tabQueued, pending, canonIn, canonOut,
          selectedStates, picked, charts, regressionModel, sessions>>

predictorVars == <<isTrained, data, featureImpacts, regionMultipliers, coeffs,
                   trainCalls, emptyOnly>>
dashVars == <<rawData, currentYear, dashData, loading>>
tabVars == <<tabValue, tab, tabQueued, pending>>
canonVars == <<canonIn, canonOut>>
filterVars == <<selectedStates, picked, charts>>
sessionVars == <<regressionModel, sessions>>

----------------------------------------------------------------------------
(* Bounds *)

MaxRecords == 2     \* longest record array passed to train
MaxTrains == 2      \* train() calls per behaviour
MaxRows == 2        \* longest raw row array delivered by the CSV reader
MaxNameLen == 3     \* longest region name given to the canonicalizers

----------------------------------------------------------------------------
(* Exact rationals *)

Abs(x) == IF x < 0 THEN -x ELSE x

RECURSIVE GCD(_, _)
GCD(a, b) == IF b = 0 THEN a ELSE GCD(b, a % b)

Rat(n, d) ==
    LET g == GCD(Abs(n), Abs(d))
        s == IF d < 0 THEN -1 ELSE 1
    IN  [num |-> (s * n) \div g, den |-> (s * d) \div g]

RInt(n) == [num |-> n, den |-> 1]
RAdd(x, y) == Rat(x.num * y.den + y.num * x.den, x.den * y.den)
RMul(x, y) == Rat(x.num * y.num, x.den * y.den)
RDivInt(x, n) == Rat(x.num, x.den * n)
RPos(x) == x.num > 0
RLeq(x, y) == x.num * y.den <= y.num * x.den
RIsInt(x) == x.den = 1

\* Math.round: the integer nearest to x, ties towards +infinity.
MathRound(x) == (2 * x.num + x.den) \div (2 * x.den)

----------------------------------------------------------------------------
(* JavaScript values *)

Undefined == [t |-> "undefined", s |-> <<>>, q |-> RInt(0), b |-> FALSE]
NaN == [t |-> "nan", s |-> <<>>, q |-> RInt(0), b |-> FALSE]
JStr(s) == [t |-> "string", s |-> s, q |-> RInt(0), b |-> FALSE]
JNum(q) == [t |-> "number", s |-> <<>>, q |-> q, b |-> FALSE]
JInt(n) == JNum(RInt(n))
JBool(b) == [t |-> "boolean", s |-> <<>>, q |-> RInt(0), b |-> b]

\* ToBoolean, as used by `!x`, `x && y`, `x || y` and filter(Boolean).
Truthy(v) ==
    CASE v.t = "undefined" -> FALSE
      [] v.t = "nan" -> FALSE
      [] v.t = "string" -> v.s # <<>>
      [] v.t = "number" -> v.q.num # 0
      [] v.t = "boolean" -> v.b

DigitChars == {"0", "1", "2", "3", "4", "5", "6", "7", "8", "9"}

DigitVal(c) ==
    CASE c = "0" -> 0 [] c = "1" -> 1 [] c = "2" -> 2 [] c = "3" -> 3
      [] c = "4" -> 4 [] c = "5" -> 5 [] c = "6" -> 6 [] c = "7" -> 7
      [] c = "8" -> 8 [] c = "9" -> 9

\* Number of leading characters of s, from position i on, that satisfy the set cs.
RECURSIVE RunLen(_, _, _)
RunLen(s, i, cs) ==
    IF i <= Len(s) /\ s[i] \in cs THEN 1 + RunLen(s, i + 1, cs) ELSE 0

\* Value of the decimal digits s[i .. i+k-1].
RECURSIVE DigitsVal(_, _, _)
DigitsVal(s, i, k) ==
    IF k = 0 THEN 0 ELSE 10 * DigitsVal(s, i, k - 1) + DigitVal(s[i + k - 1])

RECURSIVE Pow10(_)
Pow10(k) == IF k = 0 THEN 1 ELSE 10 * Pow10(k - 1)

\* parseFloat applied to a string: skip leading blanks, an optional sign, then
\* the longest prefix  digits [ "." digits ]  or  "." digits ; NaN when there is
\* none.  (Exponents and "Infinity" do not occur in the strings used here.)
ParseFloatStr(s) ==
    LET ws == RunLen(s, 1, {" "})
        hasSign == ws + 1 <= Len(s) /\ s[ws + 1] \in {"-", "+"}
        neg == hasSign /\ s[ws + 1] = "-"
        p == ws + (IF hasSign THEN 1 ELSE 0) + 1
        ni == RunLen(s, p, DigitChars)
        hasDot == p + ni <= Len(s) /\ s[p + ni] = "."
        nf == IF hasDot THEN RunLen(s, p + ni + 1, DigitChars) ELSE 0
        mant == DigitsVal(s, p, ni) * Pow10(nf) + DigitsVal(s, p + ni + 1, nf)
    IN  IF ni = 0 /\ nf = 0 THEN NaN
        ELSE JNum(Rat(IF neg THEN -mant ELSE mant, Pow10(nf)))

\* parseFloat(v): JSString(v) is parsed; a finite number prints and parses
\* back to itself, undefined and booleans print as words and give NaN.
parseFloat(v) ==
    CASE v.t = "string" -> ParseFloatStr(v.s)
      [] v.t = "number" -> v
      [] OTHER -> NaN

\* `x || 0`
OrZero(v) == IF Truthy(v) THEN v ELSE JInt(0)

\* String.prototype.trim on the blank character.
RECURSIVE TrimLeft(_)
TrimLeft(s) == IF s # <<>> /\ Head(s) = " " THEN TrimLeft(Tail(s)) ELSE s

RECURSIVE TrimRight(_)
TrimRight(s) ==
    IF s # <<>> /\ s[Len(s)] = " " THEN TrimRight(SubSeq(s, 1, Len(s) - 1)) ELSE s

Trim(s) == TrimRight(TrimLeft(s))

----------------------------------------------------------------------------
(* Rows: objects with string keys.  A key that is absent reads as undefined. *)

Fields == {"totalRent", "baseRent", "livingSpace", "noRooms", "yearConstructed",
           "serviceCharge", "heatingCosts", "regio1", "condition",
           "balcony", "garden", "lift", "pricePerSqm", "rooms", "region"}

EmptyRow == [f \in Fields |-> Undefined]

\* { ...row, k1: v1, ... }
With(row, upd) == [f \in Fields |-> IF f \in DOMAIN upd THEN upd[f] ELSE row[f]]

Amenities == <<"balcony", "garden", "lift">>

----------------------------------------------------------------------------
(* Region name canonicalizer *)

\* String.prototype.replace with a global pattern: every non-overlapping
\* occurrence of pat, scanning left to right, becomes rep.
RECURSIVE ReplaceAll(_, _, _)
ReplaceAll(s, pat, rep) ==
    IF Len(s) < Len(pat) THEN s
    ELSE IF SubSeq(s, 1, Len(pat)) = pat
         THEN rep \o ReplaceAll(SubSeq(s, Len(pat) + 1, Len(s)), pat, rep)
         ELSE <<Head(s)>> \o ReplaceAll(Tail(s), pat, rep)

\* Mutant: the mis-encoded u-umlaut is turned into an underscore.
Replacements_ToUnderscore ==
    << << <<"_">>, <<" ">> >>,
       << <<"A~", "1/4">>, <<"_">> >>,
       << <<"A~", "OE">>, <<"U:">> >>,
       << <<"A~", "PARA">>, <<"o:">> >>,
       << <<"A~", "DASH">>, <<"O:">> >>,
       << <<"A~", "CURR">>, <<"a:">> >>,
       << <<"A~", "LQUOT">>, <<"A:">> >>,
       << <<"A~", "Y:">>, <<"ss">> >> >>

\* The replace chain, in the order the code applies it.
Replacements ==
    << << <<"_">>, <<" ">> >>,
       << <<"A~", "1/4">>, <<"u:">> >>,
       << <<"A~", "OE">>, <<"U:">> >>,
       << <<"A~", "PARA">>, <<"o:">> >>,
       << <<"A~", "DASH">>, <<"O:">> >>,
       << <<"A~", "CURR">>, <<"a:">> >>,
       << <<"A~", "LQUOT">>, <<"A:">> >>,
       << <<"A~", "Y:">>, <<"ss">> >> >>

RECURSIVE ReplaceChain(_, _)
ReplaceChain(s, i) ==
    IF i > Len(Replacements) THEN s
    ELSE ReplaceChain(ReplaceAll(s, Replacements[i][1], Replacements[i][2]), i + 1)

UnknownName == <<"U", "n", "k", "n", "o", "w", "n">>
BerlinName == <<"B", "e", "r", "l", "i", "n">>

\* RentPredictor.cleanRegionName(name).  A falsy name gives 'Unknown'; a truthy
\* value that is not a string has no replace method, and the call throws.
cleanRegionName(name) ==
    IF ~Truthy(name) THEN [threw |-> FALSE, s |-> UnknownName]
    ELSE IF name.t # "string" THEN [threw |-> TRUE, s |-> <<>>]
    ELSE [threw |-> FALSE, s |-> ReplaceChain(name.s, 1)]

\* cleanRegionName(name) of Dashboard.jsx: the same chain without the guard.
\* undefined, and every value that is not a string, has no replace method.
DashboardCleanRegionName(name) ==
    IF name.t # "string" THEN [threw |-> TRUE, s |-> <<>>]
    ELSE [threw |-> FALSE, s |-> ReplaceChain(name.s, 1)]

----------------------------------------------------------------------------
(* RentPredictor *)

\* The two coefficient sets of the constructor (Prediction.jsx and the
\* earlier variant of the same file).
CoeffsSmall ==
    [base |-> RInt(800), livingSpace |-> Rat(82, 10), rooms |-> RInt(120),
     balcony |-> RInt(48), garden |-> RInt(65), lift |-> RInt(32)]

CoeffsLarge ==
    [base |-> RInt(800), livingSpace |-> Rat(82, 10), rooms |-> RInt(120),
     balcony |-> RInt(212), garden |-> RInt(65), lift |-> RInt(332)]

RentScale == 1200

\* Mutant: the constructor starts the impacts at the coefficients.
ZeroImpacts_Coefficients == [balcony |-> RInt(48), garden |-> RInt(65), lift |-> RInt(32)]

\* this.featureImpacts = { balcony: 0, garden: 0, lift: 0 }
ZeroImpacts == [balcony |-> RInt(0), garden |-> RInt(0), lift |-> RInt(0)]

\* The predictor object, assembled from its fields.
Self ==
    [isTrained |-> isTrained, data |-> data, featureImpacts |-> featureImpacts,
     regionMultipliers |-> regionMultipliers, coeffs |-> coeffs]

\* Mutant: any boolean counts as switched on.
AmenityOn_AnyBoolean(v) ==
    v.t = "boolean" \/ v.t = "string"

\* row.x === true || row.x === 'true' || row.x === 'yes'
AmenityOn(v) ==
    \/ v = JBool(TRUE)
    \/ v = JStr(<<"t", "r", "u", "e">>)
    \/ v = JStr(<<"y", "e", "s">>)

\* Mutant: the regional adjustment is left out.
MultiplierOf_Ignored(table, region) == RInt(1)

\* this.regionMultipliers[region] || 1.0
MultiplierOf(table, region) ==
    IF region \in DOMAIN table /\ table[region].num # 0 THEN table[region] ELSE RInt(1)

\* cleanRegionName(row.regio1) || cleanRegionName(row.region) || 'Berlin',
\* evaluated left to right with short circuit.
ResolveRegion(row) ==
    LET r1 == cleanRegionName(row["regio1"])
        r2 == cleanRegionName(row["region"])
    IN  IF r1.threw THEN r1
        ELSE IF r1.s # <<>> THEN r1
        ELSE IF r2.threw THEN r2
        ELSE IF r2.s # <<>> THEN r2
        ELSE [threw |-> FALSE, s |-> BerlinName]

\* Mutant: the rooms term is left out.
LinearRent_NoRooms(c, row) ==
    LET ls == OrZero(parseFloat(row["livingSpace"])).q
        p0 == RAdd(c.base, RMul(c.livingSpace, ls))
        p1 == IF AmenityOn(row["balcony"]) THEN RAdd(p0, c.balcony) ELSE p0
        p2 == IF AmenityOn(row["garden"]) THEN RAdd(p1, c.garden) ELSE p1
    IN  IF AmenityOn(row["lift"]) THEN RAdd(p2, c.lift) ELSE p2

\* The linear part of predict, before the regional adjustment.
LinearRent(c, row) ==
    LET ls == OrZero(parseFloat(row["livingSpace"])).q
        rm == OrZero(parseFloat(row["rooms"])).q
        p0 == RAdd(c.base, RAdd(RMul(c.livingSpace, ls), RMul(c.rooms, rm)))
        p1 == IF AmenityOn(row["balcony"]) THEN RAdd(p0, c.balcony) ELSE p0
        p2 == IF AmenityOn(row["garden"]) THEN RAdd(p1, c.garden) ELSE p1
    IN  IF AmenityOn(row["lift"]) THEN RAdd(p2, c.lift) ELSE p2

\* RentPredictor.predict(row)
predict(self, row) ==
    LET reg == ResolveRegion(row)
    IN  IF reg.threw THEN [threw |-> TRUE, rent |-> 0]
        ELSE [threw |-> FALSE,
              rent |-> MathRound(RMul(LinearRent(self.coeffs, row),
                                      MultiplierOf(self.regionMultipliers, reg.s)))]

\* Mutant: 'No Balcony' leaves the garden off as well.
SixCombos_NoBalconyBare ==
    << [name |-> "All true", balcony |-> TRUE, garden |-> TRUE, lift |-> TRUE,
        hasFeature |-> TRUE, featureType |-> "allTrue"],
       [name |-> "All false", balcony |-> FALSE, garden |-> FALSE, lift |-> FALSE,
        hasFeature |-> TRUE, featureType |-> "allFalse"],
       [name |-> "Balcony", balcony |-> TRUE, garden |-> FALSE, lift |-> FALSE,
        hasFeature |-> TRUE, featureType |-> "balcony"],
       [name |-> "No Balcony", balcony |-> FALSE, garden |-> FALSE, lift |-> TRUE,
        hasFeature |-> FALSE, featureType |-> "balcony"],
       [name |-> "Garden", balcony |-> FALSE, garden |-> TRUE, lift |-> FALSE,
        hasFeature |-> TRUE, featureType |-> "garden"],
       [name |-> "No Garden", balcony |-> TRUE, garden |-> FALSE, lift |-> TRUE,
        hasFeature |-> FALSE, featureType |-> "garden"],
       [name |-> "Lift", balcony |-> FALSE, garden |-> FALSE, lift |-> TRUE,
        hasFeature |-> TRUE, featureType |-> "lift"],
       [name |-> "No Lift", balcony |-> TRUE, garden |-> TRUE, lift |-> FALSE,
        hasFeature |-> FALSE, featureType |-> "lift"] >>

\* The eight entries of getSixPredictions, in the order of the array
\* literal: name, the amenities given to predict, hasFeature, featureType.
SixCombos ==
    << [name |-> "All true", balcony |-> TRUE, garden |-> TRUE, lift |-> TRUE,
        hasFeature |-> TRUE, featureType |-> "allTrue"],
       [name |-> "All false", balcony |-> FALSE, garden |-> FALSE, lift |-> FALSE,
        hasFeature |-> TRUE, featureType |-> "allFalse"],
       [name |-> "Balcony", balcony |-> TRUE, garden |-> FALSE, lift |-> FALSE,
        hasFeature |-> TRUE, featureType |-> "balcony"],
       [name |-> "No Balcony", balcony |-> FALSE, garden |-> TRUE, lift |-> TRUE,
        hasFeature |-> FALSE, featureType |-> "balcony"],
       [name |-> "Garden", balcony |-> FALSE, garden |-> TRUE, lift |-> FALSE,
        hasFeature |-> TRUE, featureType |-> "garden"],
       [name |-> "No Garden", balcony |-> TRUE, garden |-> FALSE, lift |-> TRUE,
        hasFeature |-> FALSE, featureType |-> "garden"],
       [name |-> "Lift", balcony |-> FALSE, garden |-> FALSE, lift |-> TRUE,
        hasFeature |-> TRUE, featureType |-> "lift"],
       [name |-> "No Lift", balcony |-> TRUE, garden |-> TRUE, lift |-> FALSE,
        hasFeature |-> FALSE, featureType |-> "lift"] >>

\* const baseInputs = { livingSpace, rooms, regio1: region }
BaseInputs(livingSpace, rooms, region) ==
    With(EmptyRow, [livingSpace |-> livingSpace, rooms |-> rooms, regio1 |-> region])

\* { ...baseInputs, balcony: .., garden: .., lift: .. }
SixRow(base, c) ==
    With(base, [balcony |-> JBool(c.balcony), garden |-> JBool(c.garden),
                lift |-> JBool(c.lift)])

\* One element of the returned array.
SixEntry(self, base, c) ==
    [name |-> c.name, rent |-> predict(self, SixRow(base, c)).rent,
     hasFeature |-> c.hasFeature, featureType |-> c.featureType]

\* RentPredictor.getSixPredictions(livingSpace, rooms, region).  Every
\* predict call resolves the same region, so either all throw or none.
getSixPredictions(self, livingSpace, rooms, region) ==
    [threw |-> predict(self, BaseInputs(livingSpace, rooms, region)).threw,
     list |-> [i \in 1..Len(SixCombos) |->
                 SixEntry(self, BaseInputs(livingSpace, rooms, region), SixCombos[i])]]

RECURSIVE SumSeq(_)
SumSeq(q) == IF q = <<>> THEN RInt(0) ELSE RAdd(Head(q), SumSeq(Tail(q)))

\* { ...testRow, [feature]: value }
Forced(row, f, value) == With(row, [x \in {f} |-> JBool(value)])

\* row => row.livingSpace && row.rooms
HasSpaceAndRooms(row) == Truthy(row["livingSpace"]) /\ Truthy(row["rooms"])

\* this.predict(rowYes) - this.predict(rowNo)
ForcedDiff(self, row, f) ==
    RInt(predict(self, Forced(row, f, TRUE)).rent - predict(self, Forced(row, f, FALSE)).rent)

\* impacts[feature] over the filtered rows
FeatureImpact(self, rows, f) ==
    IF Len(rows) # 0
    THEN RDivInt(SumSeq([i \in 1..Len(rows) |-> ForcedDiff(self, rows[i], f)]), Len(rows))
    ELSE RInt(0)

ImpactsOver(self, rows) ==
    [threw |-> \E i \in 1..Len(rows) : predict(self, rows[i]).threw,
     impacts |-> [balcony |-> FeatureImpact(self, rows, "balcony"),
                  garden |-> FeatureImpact(self, rows, "garden"),
                  lift |-> FeatureImpact(self, rows, "lift")]]

\* RentPredictor.calculateModelFeatureImpacts()
calculateModelFeatureImpacts(self) ==
    ImpactsOver(self, SelectSeq(self.data, HasSpaceAndRooms))

\* RentPredictor.getFeatureImpacts()
getFeatureImpacts(self) ==
    [balcony |-> MathRound(self.featureImpacts.balcony),
     garden |-> MathRound(self.featureImpacts.garden),
     lift |-> MathRound(self.featureImpacts.lift)]

\* `r.totalRent || 0` as a summand (numbers; a missing value counts 0).
RentTerm(row) == OrZero(row["totalRent"]).q

\* The group of a region: the rows whose cleaned regio1 is that region.
RegionRows(d, region) ==
    LET Keep(row) == cleanRegionName(row["regio1"]).s = region
    IN  SelectSeq(d, Keep)

\* Mutant: the scaled average is stored whatever its sign.
RegionMultiplier_Unguarded(d, region) ==
    LET rows == RegionRows(d, region)
        avg == RDivInt(SumSeq([i \in 1..Len(rows) |-> RentTerm(rows[i])]), Len(rows))
    IN  RDivInt(avg, RentScale)

\* avg > 0 ? avg / 1200 : 1.0
RegionMultiplier(d, region) ==
    LET rows == RegionRows(d, region)
        avg == RDivInt(SumSeq([i \in 1..Len(rows) |-> RentTerm(rows[i])]), Len(rows))
    IN  IF RPos(avg) THEN RDivInt(avg, RentScale) ELSE RInt(1)

\* Mutant: a region already in the table has the new value added to the old.
AssignMultipliers_Adding(table, d) ==
    LET uniqueRegions == {cleanRegionName(d[i]["regio1"]).s : i \in 1..Len(d)} \ {<<>>}
    IN  [r \in (DOMAIN table) \cup uniqueRegions |->
            IF r \in uniqueRegions
            THEN (IF r \in DOMAIN table THEN RAdd(table[r], RegionMultiplier(d, r))
                  ELSE RegionMultiplier(d, r))
            ELSE table[r]]

\* The multiplier table after the forEach of train: the entries of the unique
\* regions of d are assigned, every other entry of the table stays.
AssignMultipliers(table, d) ==
    LET uniqueRegions == {cleanRegionName(d[i]["regio1"]).s : i \in 1..Len(d)} \ {<<>>}
    IN  [r \in (DOMAIN table) \cup uniqueRegions |->
            IF r \in uniqueRegions THEN RegionMultiplier(d, r) ELSE table[r]]

\* The predictor after the assignments of train that follow the multipliers.
trainFinish(s2, fi) ==
    IF fi.threw THEN [self |-> s2, threw |-> TRUE]
    ELSE [self |-> [s2 EXCEPT !.featureImpacts = fi.impacts, !.isTrained = TRUE],
          threw |-> FALSE]

\* The body of train after its guard.  The result is the predictor after the
\* call and whether the call threw.
trainBody(self, d) ==
    IF \E i \in 1..Len(d) : cleanRegionName(d[i]["regio1"]).threw
    THEN [self |-> [self EXCEPT !.data = d], threw |-> TRUE]
    ELSE LET s2 == [self EXCEPT !.data = d,
                                !.regionMultipliers = AssignMultipliers(self.regionMultipliers, d)]
         IN  trainFinish(s2, calculateModelFeatureImpacts(s2))

\* Mutant: the guard is missing, an empty input marks the model trained.
train_NoGuard(self, arg) ==
    IF ~arg.isArray \/ Len(arg.rows) = 0
    THEN [self |-> [self EXCEPT !.data = arg.rows, !.isTrained = TRUE], threw |-> FALSE]
    ELSE trainBody(self, arg.rows)

\* RentPredictor.train(data).  arg = [isArray, rows].
train(self, arg) ==
    IF ~arg.isArray \/ Len(arg.rows) = 0 THEN [self |-> self, threw |-> FALSE]
    ELSE trainBody(self, arg.rows)

----------------------------------------------------------------------------
(* Record normalizer (Dashboard) *)

DigitChar(d) ==
    CASE d = 0 -> "0" [] d = 1 -> "1" [] d = 2 -> "2" [] d = 3 -> "3" [] d = 4 -> "4"
      [] d = 5 -> "5" [] d = 6 -> "6" [] d = 7 -> "7" [] d = 8 -> "8" [] d = 9 -> "9"

\* Decimal digits of a natural number.
RECURSIVE NatToStr(_)
NatToStr(n) == IF n < 10 THEN <<DigitChar(n)>> ELSE NatToStr(n \div 10) \o <<DigitChar(n % 10)>>

\* Number.prototype.toFixed(2) of a non-negative number.
ToFixed2(x) ==
    LET cents == MathRound(RMul(x, RInt(100)))
    IN  NatToStr(cents \div 100) \o <<".">> \o
        <<DigitChar((cents % 100) \div 10), DigitChar(cents % 10)>>

\* row[f]?.trim() || 'Unknown'   (the CSV reader delivers strings)
TrimOrUnknown(v) ==
    IF v.t = "string" /\ Trim(v.s) # <<>> THEN JStr(Trim(v.s)) ELSE JStr(UnknownName)

\* parseFloat(row[f]) || 0
Coerce(row, f) == OrZero(parseFloat(row[f]))

\* Mutant: the lower year bound is exclusive.
RowAccepted_StrictYear(row, year) ==
    /\ Truthy(row["totalRent"]) /\ Coerce(row, "totalRent").t # "nan"
    /\ Truthy(row["livingSpace"]) /\ Coerce(row, "livingSpace").t # "nan"
    /\ RPos(Coerce(row, "totalRent").q)
    /\ RPos(Coerce(row, "livingSpace").q)
    /\ ~RLeq(Coerce(row, "yearConstructed").q, RInt(1800))
    /\ RLeq(Coerce(row, "yearConstructed").q, RInt(year))

\* The condition under which processAndCleanData keeps a row.
RowAccepted(row, year) ==
    /\ Truthy(row["totalRent"]) /\ Coerce(row, "totalRent").t # "nan"
    /\ Truthy(row["livingSpace"]) /\ Coerce(row, "livingSpace").t # "nan"
    /\ RPos(Coerce(row, "totalRent").q)
    /\ RPos(Coerce(row, "livingSpace").q)
    /\ RLeq(RInt(1800), Coerce(row, "yearConstructed").q)
    /\ RLeq(Coerce(row, "yearConstructed").q, RInt(year))

\* The record pushed for a kept row.
CleanRow(row) ==
    LET totalRent == Coerce(row, "totalRent")
        livingSpace == Coerce(row, "livingSpace")
    IN  [f \in Fields |->
           CASE f = "totalRent" -> totalRent
             [] f = "baseRent" -> Coerce(row, "baseRent")
             [] f = "livingSpace" -> livingSpace
             [] f = "noRooms" -> Coerce(row, "noRooms")
             [] f = "yearConstructed" -> Coerce(row, "yearConstructed")
             [] f = "serviceCharge" -> Coerce(row, "serviceCharge")
             [] f = "heatingCosts" -> Coerce(row, "heatingCosts")
             [] f = "pricePerSqm" ->
                  IF Truthy(totalRent) /\ Truthy(livingSpace)
                  THEN JStr(ToFixed2(RMul(totalRent.q, [num |-> livingSpace.q.den,
                                                        den |-> livingSpace.q.num])))
                  ELSE JInt(0)
             [] f = "regio1" -> TrimOrUnknown(row["regio1"])
             [] f = "condition" -> TrimOrUnknown(row["condition"])
             [] OTHER -> row[f]]

\* processAndCleanData(rawData), with the year the clock shows.
RECURSIVE processAndCleanData(_, _)
processAndCleanData(rows, year) ==
    IF rows = <<>> THEN <<>>
    ELSE (IF RowAccepted(Head(rows), year) THEN <<CleanRow(Head(rows))>> ELSE <<>>)
         \o processAndCleanData(Tail(rows), year)

----------------------------------------------------------------------------
(* Amenity classification outside predict *)

\* String.prototype.toLowerCase, one character at a time.
LowerChar(c) ==
    CASE c = "A" -> "a" [] c = "B" -> "b" [] c = "C" -> "c" [] c = "D" -> "d"
      [] c = "E" -> "e" [] c = "F" -> "f" [] c = "G" -> "g" [] c = "H" -> "h"
      [] c = "I" -> "i" [] c = "J" -> "j" [] c = "K" -> "k" [] c = "L" -> "l"
      [] c = "M" -> "m" [] c = "N" -> "n" [] c = "O" -> "o" [] c = "P" -> "p"
      [] c = "Q" -> "q" [] c = "R" -> "r" [] c = "S" -> "s" [] c = "T" -> "t"
      [] c = "U" -> "u" [] c = "V" -> "v" [] c = "W" -> "w" [] c = "X" -> "x"
      [] c = "Y" -> "y" [] c = "Z" -> "z" [] c = "U:" -> "u:" [] c = "O:" -> "o:"
      [] c = "A:" -> "a:" [] c = "A~" -> "a~"
      [] OTHER -> c

toLowerCase(s) == [i \in 1..Len(s) |-> LowerChar(s[i])]

\* Digits after the decimal point of n / d, n < d.
RECURSIVE FracDigits(_, _, _)
FracDigits(n, d, k) ==
    IF n = 0 \/ k = 0 THEN <<>>
    ELSE <<DigitChar((n * 10) \div d)>> \o FracDigits((n * 10) % d, d, k - 1)

\* Number to string, for the decimal numbers of the model.
NumToStr(x) ==
    LET a == Abs(x.num)
        whole == NatToStr(a \div x.den)
        frac == FracDigits(a % x.den, x.den, 17)
    IN  (IF x.num < 0 THEN <<"-">> ELSE <<>>) \o whole
        \o (IF frac = <<>> THEN <<>> ELSE <<".">> \o frac)

\* String(value)
JSString(v) ==
    CASE v.t = "string" -> v.s
      [] v.t = "boolean" -> IF v.b THEN <<"t", "r", "u", "e">> ELSE <<"f", "a", "l", "s", "e">>
      [] v.t = "number" -> NumToStr(v.q)
      [] v.t = "nan" -> <<"N", "a", "N">>
      [] OTHER -> <<"u", "n", "d", "e", "f", "i", "n", "e", "d">>

\* The filter of featureImpactData that puts a row in the group with the
\* feature:  String(row[f]).toLowerCase() === 'true' || ... === 'yes'
FeatureYes(v) ==
    \/ toLowerCase(JSString(v)) = <<"t", "r", "u", "e">>
    \/ toLowerCase(JSString(v)) = <<"y", "e", "s">>

\* boolToNum(val) of the regression variant of the prediction tab.
boolToNum(v) ==
    IF v = JBool(TRUE) \/ v = JStr(<<"t", "r", "u", "e">>) \/ v = JInt(1) \/ v = JStr(<<"1">>)
    THEN 1 ELSE 0

----------------------------------------------------------------------------
(* PredictionTab component *)

\* Length of the numeric literal  [sign] digits [ "." digits ]  or
\* [sign] "." digits  at the start of s; 0 when there is none.
NumericLen(s) ==
    LET hasSign == s # <<>> /\ s[1] \in {"-", "+"}
        p == (IF hasSign THEN 1 ELSE 0) + 1
        ni == RunLen(s, p, DigitChars)
        hasDot == p + ni <= Len(s) /\ s[p + ni] = "."
        nf == IF hasDot THEN RunLen(s, p + ni + 1, DigitChars) ELSE 0
    IN  IF ni = 0 /\ nf = 0 THEN 0
        ELSE (p - 1) + ni + (IF hasDot THEN 1 + nf ELSE 0)

\* Number(e.target.value): the empty string is 0, a string that is a numeric
\* literal as a whole is its value, any other string is NaN.
Number(s) ==
    IF Trim(s) = <<>> THEN JInt(0)
    ELSE IF NumericLen(Trim(s)) = Len(Trim(s)) THEN ParseFloatStr(Trim(s))
    ELSE NaN

UpperLetters ==
    <<"A", "B", "C", "D", "E", "F", "G", "H", "I", "J", "K", "L", "M",
      "N", "O", "P", "Q", "R", "S", "T", "U", "V", "W", "X", "Y", "Z">>

LowerLetters ==
    <<"a", "b", "c", "d", "e", "f", "g", "h", "i", "j", "k", "l", "m",
      "n", "o", "p", "q", "r", "s", "t", "u", "v", "w", "x", "y", "z">>

IndexIn(c, q) == CHOOSE i \in 1..Len(q) : q[i] = c

\* The UTF-16 code unit of a character, which Array.prototype.sort compares.
CharCode(c) ==
    CASE c = " " -> 32 [] c = "-" -> 45 [] c = "." -> 46 [] c = "_" -> 95
      [] c \in DigitChars -> 48 + DigitVal(c)
      [] c \in {UpperLetters[i] : i \in 1..26} -> 64 + IndexIn(c, UpperLetters)
      [] c \in {LowerLetters[i] : i \in 1..26} -> 96 + IndexIn(c, LowerLetters)
      [] c = "CURR" -> 164 [] c = "PARA" -> 182 [] c = "1/4" -> 188
      [] c = "A~" -> 195 [] c = "A:" -> 196 [] c = "O:" -> 214 [] c = "U:" -> 220
      [] c = "ss" -> 223 [] c = "a:" -> 228 [] c = "o:" -> 246 [] c = "u:" -> 252
      [] c = "OE" -> 339 [] c = "Y:" -> 376 [] c = "DASH" -> 8211 [] c = "LQUOT" -> 8222

\* a sorts before b, or equals it, in the default order of sort().
RECURSIVE StrLeq(_, _)
StrLeq(a, b) ==
    IF a = <<>> THEN TRUE
    ELSE IF b = <<>> THEN FALSE
    ELSE IF CharCode(Head(a)) # CharCode(Head(b)) THEN CharCode(Head(a)) < CharCode(Head(b))
    ELSE StrLeq(Tail(a), Tail(b))

\* [...set].sort()
RECURSIVE SortStrings(_)
SortStrings(S) ==
    IF S = {} THEN <<>>
    ELSE LET m == CHOOSE x \in S : \A y \in S : StrLeq(x, y)
         IN  <<m>> \o SortStrings(S \ {m})

\* availableRegions: the distinct cleaned regio1 of data, without the empty
\* name, sorted.  (The records come from the normalizer, regio1 is a string.)
availableRegions(d) ==
    SortStrings({cleanRegionName(d[i]["regio1"]).s : i \in 1..Len(d)} \ {<<>>})

\* The useState initial values of PredictionTab.
TabInitial ==
    [livingSpace |-> JInt(80), rooms |-> JInt(3), region |-> JStr(<<>>), regions |-> <<>>,
     isModelTrained |-> FALSE, predictions |-> <<>>,
     featureImpacts |-> [balcony |-> 0, garden |-> 0, lift |-> 0]]

\* Mutant: the effect does not look at isModelTrained.
ShouldTrain_EveryRun(t, d) == Len(d) > 0

\* The guard of the training effect.
ShouldTrain(t, d) == ~t.isModelTrained /\ Len(d) > 0

\* The setState calls of the training effect, applied to the queued state q;
\* t is the state of the render the effect closed over, self the predictor
\* after train(data).
TrainingUpdates(q, t, self, d) ==
    [q EXCEPT !.isModelTrained = TRUE,
              !.featureImpacts = getFeatureImpacts(self),
              !.regions = availableRegions(d),
              !.region = IF ~Truthy(t.region) /\ Len(availableRegions(d)) # 0
                         THEN JStr(availableRegions(d)[1]) ELSE @]

\* The guard of the prediction effect.
ShouldPredict(t) == t.isModelTrained /\ Truthy(t.region)

\* rawPredictions.find(p => p.featureType === type): the first such element.
FindType(list, type) ==
    list[CHOOSE i \in 1..Len(list) :
            /\ list[i].featureType = type
            /\ \A j \in 1..(i - 1) : list[j].featureType # type]

\* Mutant: the two rents are added and not halved.
Averaged_Summed(p, ref) == [p EXCEPT !.rent = p.rent + ref.rent]

\* Math.round((p.rent + ref.rent) / 2)
Averaged(p, ref) == [p EXCEPT !.rent = MathRound(Rat(p.rent + ref.rent, 2))]

\* Mutant: every scenario is averaged with 'All true'.
AdjustOne_AlwaysAllTrue(p, list) ==
    Averaged(p, FindType(list, "allTrue"))

\* The map callback of the prediction effect.
AdjustOne(p, list) ==
    IF p.featureType \in {"balcony", "garden", "lift"} /\ p.hasFeature
    THEN Averaged(p, FindType(list, "allTrue"))
    ELSE IF p.featureType \in {"balcony", "garden", "lift"} /\ ~p.hasFeature
    THEN Averaged(p, FindType(list, "allFalse"))
    ELSE p

NotReference(p) == p.featureType # "allTrue" /\ p.featureType # "allFalse"

\* adjustedPredictions
adjustedPredictions(list) ==
    [i \in 1..Len(SelectSeq(list, NotReference)) |->
        AdjustOne(SelectSeq(list, NotReference)[i], list)]

----------------------------------------------------------------------------
(* Dashboard: region filter and aggregations *)

AllName == <<"A", "l", "l">>

\* The `conditionFilter` state: it is initialised to 'All' and never set.
conditionFilter == AllName

\* const allStates = [...new Set(data.map(row => cleanRegionName(row.regio1)))].sort()
allStates(d) ==
    SortStrings({DashboardCleanRegionName(d[i]["regio1"]).s : i \in 1..Len(d)})

\* const conditions = ['All', ...new Set(data.map(row => row.condition)
\*                                   .filter(c => c !== 'Unknown'))].sort()
\* (a condition spelled 'All' would be listed twice; the set drops the copy,
\* which conditionDonutData filters out anyway)
conditions(d) ==
    SortStrings({AllName} \cup ({d[i]["condition"].s : i \in 1..Len(d)} \ {UnknownName}))

\* The filter callback of filteredData.
RowShown(row, selected) ==
    /\ \/ \E k \in 1..Len(selected) : selected[k] = AllName
       \/ Len(selected) = 0
       \/ \E k \in 1..Len(selected) :
             selected[k] = DashboardCleanRegionName(row["regio1"]).s
    /\ conditionFilter = AllName \/ row["condition"].s = conditionFilter

\* filteredData
filteredData(d, selected) ==
    LET Shown(row) == RowShown(row, selected)
    IN  SelectSeq(d, Shown)

\* Math.floor of a non-negative number.
MathFloor(x) == x.num \div x.den

\* Math.floor(row.yearConstructed / 10) * 10
DecadeOf(row) == (MathFloor(row["yearConstructed"].q) \div 10) * 10

\* row.yearConstructed > 0 && row.totalRent > 0
InDecadeChart(row) == RPos(row["yearConstructed"].q) /\ RPos(row["totalRent"].q)

\* The rows accumulated in yearRents[decade].
DecadeRows(fd, decade) ==
    LET Here(row) == InDecadeChart(row) /\ DecadeOf(row) = decade
    IN  SelectSeq(fd, Here)

RECURSIVE SortInts(_)
SortInts(S) ==
    IF S = {} THEN <<>>
    ELSE LET m == CHOOSE x \in S : \A y \in S : x <= y
         IN  <<m>> \o SortInts(S \ {m})

\* parseFloat(x.toFixed(2))
Rounded2(x) == ParseFloatStr(ToFixed2(x)).q

\* One element of the mapped entries of yearRents.
DecadeEntry(fd, decade) ==
    [decade |-> NatToStr(decade) \o <<"s">>,
     avgRent |-> Rounded2(RDivInt(SumSeq([i \in 1..Len(DecadeRows(fd, decade)) |->
                                             DecadeRows(fd, decade)[i]["totalRent"].q]),
                                   Len(DecadeRows(fd, decade)))),
     propertyCount |-> Len(DecadeRows(fd, decade)),
     decadeNumber |-> decade]

MinDecadeCount == 5

\* Mutant: a decade needs more than five records.
EnoughData_MoreThanFive(d) == d.propertyCount > MinDecadeCount

\* d => d.propertyCount >= 5
EnoughData(d) == d.propertyCount >= MinDecadeCount

\* rentByConstructionYearData
rentByConstructionYearData(fd) ==
    LET decades == SortInts({DecadeOf(fd[i]) : i \in {j \in 1..Len(fd) : InDecadeChart(fd[j])}})
    IN  SelectSeq([k \in 1..Len(decades) |-> DecadeEntry(fd, decades[k])], EnoughData)

\* Number.prototype.toFixed(1) of a non-negative number.
ToFixed1(x) ==
    LET tenths == MathRound(RMul(x, RInt(10)))
    IN  NatToStr(tenths \div 10) \o <<".">> \o <<DigitChar(tenths % 10)>>

CountWith(fd, condition) ==
    Cardinality({i \in 1..Len(fd) : fd[i]["condition"].s = condition})

\* The map callback of conditionDonutData.
DonutEntry(fd, condition) ==
    [name |-> condition,
     value |-> CountWith(fd, condition),
     percentage |-> IF Len(fd) > 0
                    THEN ParseFloatStr(ToFixed1(Rat(CountWith(fd, condition) * 100, Len(fd)))).q
                    ELSE RInt(0)]

\* condition => condition !== 'All' && condition.toLowerCase() !== 'negotiable'
DonutCondition(c) ==
    c # AllName /\ toLowerCase(c) # <<"n", "e", "g", "o", "t", "i", "a", "b", "l", "e">>

HasValue(e) == e.value > 0

\* sort((a, b) => b.value - a.value): descending by value, stable.
RECURSIVE SortByValue(_)
SortByValue(q) ==
    IF q = <<>> THEN <<>>
    ELSE LET i == CHOOSE i \in 1..Len(q) :
                     /\ \A j \in 1..Len(q) : q[j].value <= q[i].value
                     /\ \A j \in 1..(i - 1) : q[j].value < q[i].value
         IN  <<q[i]>> \o SortByValue(SubSeq(q, 1, i - 1) \o SubSeq(q, i + 1, Len(q)))

\* conditionDonutData
conditionDonutData(d, fd) ==
    LET cs == SelectSeq(conditions(d), DonutCondition)
    IN  SortByValue(SelectSeq([k \in 1..Len(cs) |-> DonutEntry(fd, cs[k])], HasValue))

\* The value the multi-select hands to onChange when an item is clicked:
\* the selection without the item if it was selected, else with it appended.
Toggled(selected, item) ==
    LET Other(x) == x # item
    IN  IF \E k \in 1..Len(selected) : selected[k] = item
        THEN SelectSeq(selected, Other)
        ELSE Append(selected, item)

Includes(q, x) == \E k \in 1..Len(q) : q[k] = x

\* Mutant: checking every region one by one keeps the list of regions.
handleRegionChange_NoCollapse(value, selected, states) ==
    IF Includes(value, AllName)
    THEN (IF ~Includes(selected, AllName) THEN <<AllName>> ELSE <<>>)
    ELSE value

\* handleRegionChange: the new selectedStates.
handleRegionChange(value, selected, states) ==
    IF Includes(value, AllName)
    THEN (IF ~Includes(selected, AllName) THEN <<AllName>> ELSE <<>>)
    ELSE IF Len(value) = Len(states) THEN <<AllName>>
    ELSE IF Includes(selected, AllName) /\ Len(value) < Len(states) THEN value
    ELSE value

\* handleDeleteState: the new selectedStates.
handleDeleteState(stateToDelete, selected) ==
    LET Kept(state) == DashboardCleanRegionName(JStr(state)).s # stateToDelete
    IN  SelectSeq(selected, Kept)

----------------------------------------------------------------------------
(* Inputs *)

SeqsUpTo(S, n) == UNION {[1..k -> S] : k \in 0..n}

NumStr(n) == JStr(NatToStr(n))
NegStr(n) == JStr(<<"-">> \o NatToStr(n))

NameSHu == <<"S", "_", "H">>
NameSH == <<"S", " ", "H">>
NameMuBad == <<"M", "A~", "1/4">>
NameMu == <<"M", "u:">>
NameX == <<"X">>

WordTrue == <<"t", "r", "u", "e">>
WordYes == <<"y", "e", "s">>
WordFalse == <<"f", "a", "l", "s", "e">>

\* A well-formed CSV row.
RawBase ==
    With(EmptyRow,
         [totalRent |-> NumStr(1200), baseRent |-> NumStr(900), livingSpace |-> NumStr(80),
          noRooms |-> NumStr(3), yearConstructed |-> NumStr(1990),
          serviceCharge |-> NumStr(200), heatingCosts |-> NumStr(100),
          regio1 |-> JStr(NameSHu), condition |-> JStr(<<"g", "o", "o", "d">>),
          balcony |-> JStr(WordTrue), garden |-> JStr(WordFalse), lift |-> JStr(WordFalse)])

\* CSV rows behind the records the predictor is trained on.
TrainRawRows ==
    { With(RawBase, [totalRent |-> NumStr(1800)]),
      With(RawBase, [totalRent |-> NumStr(600), livingSpace |-> NumStr(50),
                     noRooms |-> NumStr(2), regio1 |-> JStr(NameMuBad)]) }

\* Records as the dashboard hands them to PredictionTab.
CleanedSamples == {CleanRow(r) : r \in TrainRawRows}

\* Records built by a caller of the class directly (they carry `rooms`).
DirectRecords ==
    { With(EmptyRow, [totalRent |-> JInt(0), livingSpace |-> JInt(50), rooms |-> JInt(2),
                      regio1 |-> JStr(NameMu)]) }

TrainRecords == CleanedSamples \cup DirectRecords

NotAnArray == [isArray |-> FALSE, rows |-> <<>>]

TrainArgs ==
    {[isArray |-> TRUE, rows |-> q] : q \in SeqsUpTo(TrainRecords, MaxRecords)}
        \cup {NotAnArray}

ScenBase ==
    With(EmptyRow,
         [livingSpace |-> JInt(80), rooms |-> JInt(3), regio1 |-> JStr(NameSH),
          balcony |-> JBool(FALSE), garden |-> JBool(FALSE), lift |-> JBool(FALSE)])

AmenityCombos ==
    { <<TRUE, FALSE, FALSE>>, <<FALSE, TRUE, FALSE>>, <<FALSE, FALSE, TRUE>> }

\* Scenarios of the shape getSixPredictions builds, and numeric variations.
TypedScenarios ==
    { With(ScenBase, [regio1 |-> r]) :
        r \in {JStr(NameSH), JStr(NameMuBad), JStr(NameX), Undefined} }
    \cup
    { With(ScenBase, [regio1 |-> JStr(NameMuBad), balcony |-> JBool(c[1]),
                      garden |-> JBool(c[2]), lift |-> JBool(c[3])]) : c \in AmenityCombos }
    \cup
    { With(ScenBase, [livingSpace |-> v, regio1 |-> JStr(NameMu)]) :
        v \in {JInt(57), JNum(Rat(125, 10)), JInt(-10), JInt(0)} }

\* Scenarios with missing or wrongly typed fields.
LooseScenarios ==
    { With(ScenBase, [livingSpace |-> Undefined]),
      With(ScenBase, [livingSpace |-> JStr(<<"a", "b">>)]),
      With(ScenBase, [livingSpace |-> JStr(<<"5", "7", ".", "5", "m">>)]),
      With(ScenBase, [livingSpace |-> NaN, rooms |-> Undefined]),
      With(ScenBase, [regio1 |-> JInt(5)]),
      With(ScenBase, [regio1 |-> JBool(TRUE), region |-> JStr(NameMu)]),
      With(ScenBase, [regio1 |-> JStr(<<>>), region |-> JStr(NameMu)]),
      With(ScenBase, [regio1 |-> Undefined, region |-> JStr(NameMu)]),
      With(ScenBase, [balcony |-> JStr(WordYes), lift |-> JStr(WordTrue)]),
      With(ScenBase, [balcony |-> JStr(<<"Y", "e", "s">>), garden |-> JInt(1)]),
      With(ScenBase, [balcony |-> Undefined, garden |-> Undefined, lift |-> Undefined]) }

Scenarios == TypedScenarios \cup LooseScenarios

\* Arguments (livingSpace, rooms, region) of getSixPredictions.
SixInputs ==
    { <<ls, JInt(3), r>> :
        ls \in {JInt(80), JNum(Rat(125, 10))},
        r \in {JStr(NameSH), JStr(NameMu), JStr(NameX), JStr(<<>>), JInt(5)} }

----------------------------------------------------------------------------
(* The RentPredictor class under arbitrary calls *)

\* Mutant: the constructor seeds a multiplier.
EmptyTable_Seeded == [r \in {<<"M", "u:">>} |-> RInt(2)]

\* this.regionMultipliers = {}
EmptyTable == [r \in {} |-> RInt(1)]

NoCall ==
    [op |-> "none", row |-> EmptyRow, arg |-> NotAnArray, threw |-> FALSE, rent |-> 0,
     impacts |-> [balcony |-> 0, garden |-> 0, lift |-> 0], six |-> <<>>,
     repeat |-> FALSE]

\* new RentPredictor()
Constructed ==
    /\ isTrained = FALSE
    /\ data = <<>>
    /\ featureImpacts = ZeroImpacts
    /\ regionMultipliers = EmptyTable
    /\ trainCalls = 0
    /\ emptyOnly = TRUE
    /\ last = NoCall

\* A canonicalizer that was not called, and the result of a call.
NotCalled == [called |-> FALSE, threw |-> FALSE, s |-> <<>>]
Called(r) == [called |-> TRUE, threw |-> r.threw, s |-> r.s]

\* No name has been given to the canonicalizers: neither function was
\* applied to the name (class, dashboard) or to its own result (classAgain,
\* dashboardAgain).
NoCanon ==
    [class |-> NotCalled, classAgain |-> NotCalled,
     dashboard |-> NotCalled, dashboardAgain |-> NotCalled]

CanonIdle ==
    /\ canonIn = Undefined
    /\ canonOut = NoCanon

\* The page holds no PredictionTab of the regression variant, and
\* window._regressionModel is undefined.
NoModel == [trained |-> FALSE, x |-> <<>>, y |-> <<>>]

NoSession ==
    [mounted |-> FALSE, effectDue |-> FALSE, data |-> <<>>,
     predictionInput |-> [f \in {} |-> <<>>],
     predictedRent |-> [kind |-> "null", model |-> NoModel, features |-> <<>>]]

SessionIds == {1, 2}

NoSessions ==
    /\ regressionModel = NoModel
    /\ sessions = [i \in SessionIds |-> NoSession]

\* No render has happened since the last state change.
NotRendered == [rendered |-> FALSE, decades |-> <<>>, donut |-> <<>>]

DashboardMounted ==
    /\ dashData = <<>>
    /\ loading = TRUE
    /\ tabValue = 0
    /\ tab = TabInitial
    /\ tabQueued = TabInitial
    /\ pending = <<>>
    /\ selectedStates = <<>>
    /\ picked = <<>>
    /\ charts = NotRendered

Init ==
    /\ Constructed
    /\ coeffs \in {CoeffsSmall, CoeffsLarge}
    /\ DashboardMounted
    /\ rawData = <<>>
    /\ currentYear = 2026
    /\ CanonIdle
    /\ NoSessions

Train(arg) ==
    /\ trainCalls < MaxTrains
    /\ \E r \in {train(Self, arg)} :
           /\ isTrained' = r.self.isTrained
           /\ data' = r.self.data
           /\ featureImpacts' = r.self.featureImpacts
           /\ regionMultipliers' = r.self.regionMultipliers
           /\ last' = [NoCall EXCEPT !.op = "train", !.arg = arg, !.threw = r.threw,
                                     !.repeat = (last.op = "train" /\ last.arg = arg)]
    /\ trainCalls' = trainCalls + 1
    /\ emptyOnly' = (emptyOnly /\ ~(arg.isArray /\ Len(arg.rows) > 0))
    /\ UNCHANGED <<coeffs, dashVars, tabVars, canonVars, filterVars, sessionVars>>

\* Mutant: predict stores the default multiplier of a region it does not know.
Predict_StoringDefault(row) ==
    /\ \E r \in {predict(Self, row)} :
           last' = [NoCall EXCEPT !.op = "predict", !.row = row, !.threw = r.threw,
                                  !.rent = r.rent]
    /\ regionMultipliers' =
           IF ResolveRegion(row).threw \/ ResolveRegion(row).s \in DOMAIN regionMultipliers
           THEN regionMultipliers
           ELSE [n \in DOMAIN regionMultipliers \cup {ResolveRegion(row).s} |->
                    IF n \in DOMAIN regionMultipliers THEN regionMultipliers[n] ELSE RInt(1)]
    /\ UNCHANGED <<isTrained, data, featureImpacts, coeffs,
                   trainCalls, emptyOnly, dashVars, tabVars, canonVars, filterVars, sessionVars>>

Predict(row) ==
    /\ \E r \in {predict(Self, row)} :
           last' = [NoCall EXCEPT !.op = "predict", !.row = row, !.threw = r.threw,
                                  !.rent = r.rent]
    /\ UNCHANGED <<isTrained, data, featureImpacts, regionMultipliers, coeffs,
                   trainCalls, emptyOnly, dashVars, tabVars, canonVars, filterVars, sessionVars>>

\* The observation keeps the argument of a train call made just before.
GetFeatureImpacts ==
    /\ last' = [NoCall EXCEPT !.op = "getFeatureImpacts", !.impacts = getFeatureImpacts(Self),
                              !.arg = IF last.op = "train" THEN last.arg ELSE NotAnArray]
    /\ UNCHANGED <<isTrained, data, featureImpacts, regionMultipliers, coeffs,
                   trainCalls, emptyOnly, dashVars, tabVars, canonVars, filterVars, sessionVars>>

GetSixPredictions(livingSpace, rooms, region) ==
    /\ \E r \in {getSixPredictions(Self, livingSpace, rooms, region)} :
           last' = [NoCall EXCEPT !.op = "getSixPredictions",
                                  !.row = BaseInputs(livingSpace, rooms, region),
                                  !.threw = r.threw,
                                  !.six = IF r.threw THEN <<>> ELSE r.list]
    /\ UNCHANGED <<isTrained, data, featureImpacts, regionMultipliers, coeffs,
                   trainCalls, emptyOnly, dashVars, tabVars, canonVars, filterVars, sessionVars>>

Next ==
    \/ \E arg \in TrainArgs : Train(arg)
    \/ \E row \in Scenarios : Predict(row)
    \/ GetFeatureImpacts
    \/ \E a \in SixInputs : GetSixPredictions(a[1], a[2], a[3])

Spec == Init /\ [][Next]_vars

----------------------------------------------------------------------------
(* The dashboard's data-loading effect *)

Years == {2025, 2026}

\* One field of the well-formed row replaced by a value the CSV may hold.
RawRows ==
    { RawBase }
    \cup { With(RawBase, [totalRent |-> v]) :
             v \in {Undefined, JStr(<<>>), JStr(<<"a">>), NumStr(0), NegStr(5),
                    JStr(<<"7", "5", "0", ".", "5">>)} }
    \cup { With(RawBase, [livingSpace |-> v]) :
             v \in {Undefined, JStr(<<"x">>), NumStr(0), NegStr(3), JStr(<<"4", "5", "m">>)} }
    \cup { With(RawBase, [yearConstructed |-> v]) :
             v \in {Undefined, JStr(<<"x">>), NumStr(1799), NumStr(1800), NumStr(2025),
                    NumStr(2026), NumStr(2027), JStr(<<"1", "9", "9", "0", ".", "5">>)} }
    \cup { With(RawBase, [baseRent |-> NegStr(50)]),
           With(RawBase, [serviceCharge |-> NegStr(1), heatingCosts |-> Undefined]),
           With(RawBase, [heatingCosts |-> NegStr(20), baseRent |-> JStr(<<"x">>)]),
           With(RawBase, [noRooms |-> NegStr(2)]),
           With(RawBase, [noRooms |-> Undefined, regio1 |-> Undefined]),
           With(RawBase, [regio1 |-> JStr(<<" ", "M", "u:", " ">>), condition |-> JStr(<<" ">>)]) }

InitLoad ==
    /\ Constructed
    /\ coeffs = CoeffsSmall
    /\ DashboardMounted
    /\ rawData \in SeqsUpTo(RawRows, MaxRows)
    /\ currentYear \in Years
    /\ CanonIdle
    /\ NoSessions

\* Papa.parse `complete` callback
ParseComplete ==
    /\ loading
    /\ dashData' = processAndCleanData(rawData, currentYear)
    /\ loading' = FALSE
    /\ last' = [NoCall EXCEPT !.op = "complete"]
    /\ UNCHANGED <<predictorVars, rawData, currentYear, tabVars, canonVars, filterVars, sessionVars>>

\* Papa.parse `error` callback
ParseError ==
    /\ loading
    /\ loading' = FALSE
    /\ last' = [NoCall EXCEPT !.op = "error"]
    /\ UNCHANGED <<predictorVars, rawData, currentYear, dashData, tabVars, canonVars, filterVars, sessionVars>>

NextLoad == ParseComplete \/ ParseError

SpecLoad == InitLoad /\ [][NextLoad]_vars

----------------------------------------------------------------------------
(* The dashboard with its prediction tab *)

\* CSV rows of the tab scenario: two that are kept, of different regions,
\* and one the normalizer rejects.
TabRawRows == TrainRawRows \cup {With(RawBase, [totalRent |-> NumStr(0)])}

\* What the user types into the two number fields.
LivingSpaceTexts == {<<"5", "7">>, <<>>, <<"-", "1", "0">>}
RoomsTexts == {<<"2">>}

InitTab ==
    /\ Constructed
    /\ coeffs = CoeffsSmall
    /\ DashboardMounted
    /\ rawData \in SeqsUpTo(TabRawRows, MaxRows)
    /\ currentYear = 2026
    /\ CanonIdle
    /\ NoSessions

\* useState(() => new RentPredictor()) of a mounting PredictionTab; the
\* predictor of an unmounted one is dropped with it.
NewPredictor ==
    /\ isTrained' = FALSE
    /\ data' = <<>>
    /\ featureImpacts' = ZeroImpacts
    /\ regionMultipliers' = EmptyTable
    /\ trainCalls' = 0
    /\ emptyOnly' = TRUE
    /\ UNCHANGED coeffs

\* Tabs onChange: setTabValue(v).  The tabs are rendered once loading is
\* over; value 1 mounts PredictionTab, whose two effects run after the first
\* render, value 0 unmounts it.
SetTabValue(v) ==
    /\ ~loading
    /\ v # tabValue
    /\ tabValue' = v
    /\ tab' = TabInitial
    /\ tabQueued' = TabInitial
    /\ pending' = IF v = 1 THEN <<"training", "prediction">> ELSE <<>>
    /\ NewPredictor
    /\ last' = [NoCall EXCEPT !.op = "setTabValue"]
    /\ UNCHANGED <<dashVars, canonVars, filterVars, sessionVars>>

\* The training effect of PredictionTab.
TrainingEffect ==
    /\ tabValue = 1
    /\ pending # <<>> /\ Head(pending) = "training"
    /\ pending' = Tail(pending)
    /\ last' = [NoCall EXCEPT !.op = "trainingEffect"]
    /\ IF ShouldTrain(tab, dashData)
       THEN \E r \in {train(Self, [isArray |-> TRUE, rows |-> dashData])} :
               /\ isTrained' = r.self.isTrained
               /\ data' = r.self.data
               /\ featureImpacts' = r.self.featureImpacts
               /\ regionMultipliers' = r.self.regionMultipliers
               /\ trainCalls' = trainCalls + 1
               /\ emptyOnly' = FALSE
               /\ tabQueued' = IF r.threw THEN tabQueued
                               ELSE TrainingUpdates(tabQueued, tab, r.self, dashData)
       ELSE UNCHANGED <<isTrained, data, featureImpacts, regionMultipliers, trainCalls,
                        emptyOnly, tabQueued>>
    /\ UNCHANGED <<coeffs, dashVars, tabValue, tab, canonVars, filterVars, sessionVars>>

\* The prediction effect of PredictionTab.
PredictionEffect ==
    /\ tabValue = 1
    /\ pending # <<>> /\ Head(pending) = "prediction"
    /\ pending' = Tail(pending)
    /\ IF ShouldPredict(tab)
       THEN \E r \in {getSixPredictions(Self, tab.livingSpace, tab.rooms, tab.region)} :
               /\ tabQueued' = [tabQueued EXCEPT !.predictions = adjustedPredictions(r.list)]
               /\ last' = [NoCall EXCEPT
                              !.op = "predictionEffect",
                              !.row = BaseInputs(tab.livingSpace, tab.rooms, tab.region),
                              !.six = r.list]
       ELSE /\ last' = [NoCall EXCEPT !.op = "predictionEffect"]
            /\ UNCHANGED tabQueued
    /\ UNCHANGED <<predictorVars, dashVars, tabValue, tab, canonVars, filterVars, sessionVars>>

\* The effects whose dependency list differs between two renders: the
\* training effect depends on isModelTrained and region (data, predictor and
\* availableRegions do not change while the tab is mounted), the prediction
\* effect on livingSpace, rooms, region and isModelTrained.
EffectsDue(old, new) ==
    (IF old.isModelTrained # new.isModelTrained \/ old.region # new.region
     THEN <<"training">> ELSE <<>>)
    \o
    (IF \/ old.livingSpace # new.livingSpace \/ old.rooms # new.rooms
        \/ old.region # new.region \/ old.isModelTrained # new.isModelTrained
     THEN <<"prediction">> ELSE <<>>)

\* React renders the component again with the queued state.
Render ==
    /\ tabValue = 1
    /\ pending = <<>>
    /\ tabQueued # tab
    /\ tab' = tabQueued
    /\ pending' = EffectsDue(tab, tabQueued)
    /\ last' = [NoCall EXCEPT !.op = "render"]
    /\ UNCHANGED <<predictorVars, dashVars, tabValue, tabQueued, canonVars, filterVars, sessionVars>>

\* The component is rendered, with no effect or update outstanding.
TabIdle == tabValue = 1 /\ pending = <<>> /\ tabQueued = tab

\* onChange={e => setLivingSpace(Number(e.target.value))}
SetLivingSpace(text) ==
    /\ TabIdle
    /\ tabQueued' = [tab EXCEPT !.livingSpace = Number(text)]
    /\ last' = [NoCall EXCEPT !.op = "setLivingSpace"]
    /\ UNCHANGED <<predictorVars, dashVars, tabValue, tab, pending, canonVars, filterVars, sessionVars>>

\* onChange={e => setRooms(Number(e.target.value))}
SetRooms(text) ==
    /\ TabIdle
    /\ tabQueued' = [tab EXCEPT !.rooms = Number(text)]
    /\ last' = [NoCall EXCEPT !.op = "setRooms"]
    /\ UNCHANGED <<predictorVars, dashVars, tabValue, tab, pending, canonVars, filterVars, sessionVars>>

\* onChange={e => setRegion(e.target.value)}: one of the menu items.
SetRegion(k) ==
    /\ TabIdle
    /\ k \in 1..Len(tab.regions)
    /\ tabQueued' = [tab EXCEPT !.region = JStr(tab.regions[k])]
    /\ last' = [NoCall EXCEPT !.op = "setRegion"]
    /\ UNCHANGED <<predictorVars, dashVars, tabValue, tab, pending, canonVars, filterVars, sessionVars>>

NextTab ==
    \/ ParseComplete
    \/ ParseError
    \/ \E v \in {0, 1} : SetTabValue(v)
    \/ TrainingEffect
    \/ PredictionEffect
    \/ Render
    \/ \E text \in LivingSpaceTexts : SetLivingSpace(text)
    \/ \E text \in RoomsTexts : SetRooms(text)
    \/ \E k \in 1..MaxRows : SetRegion(k)

SpecTab == InitTab /\ [][NextTab]_vars

\* A step of the mounted tab in which the training effect runs: the effect
\* at the head of `pending` is taken off.  (TrainingEffect is enabled exactly
\* when this step is, and is the only action of NextTab that takes it.)
TrainingEffectRuns ==
    /\ tabValue = 1 /\ tabValue' = 1
    /\ pending # <<>> /\ Head(pending) = "training"
    /\ pending' = Tail(pending)

\* The same for the prediction effect.
PredictionEffectRuns ==
    /\ tabValue = 1 /\ tabValue' = 1
    /\ pending # <<>> /\ Head(pending) = "prediction"
    /\ pending' = Tail(pending)

\* React runs the effects of a commit and renders queued state updates
\* without waiting for anything; the user's actions may never happen.
SpecTabFair ==
    /\ SpecTab
    /\ WF_pending(TrainingEffectRuns)
    /\ WF_pending(PredictionEffectRuns)
    /\ WF_vars(Render)

----------------------------------------------------------------------------
(* The two region canonicalizers as pure functions *)

\* The characters of the names: underscore, blank, a letter, the bytes of
\* the mis-encoded umlauts and the repaired umlauts.
NameChars ==
    {"_", " ", "M", "A~", "1/4", "OE", "PARA", "DASH", "CURR", "LQUOT", "Y:",
     "u:", "U:", "o:", "O:", "a:", "A:", "ss"}

\* Every name up to MaxNameLen characters, a missing name and a number.
NameInputs ==
    {JStr(q) : q \in SeqsUpTo(NameChars, MaxNameLen)} \cup {Undefined, JInt(5)}

InitCanon ==
    /\ Constructed
    /\ coeffs = CoeffsSmall
    /\ DashboardMounted
    /\ rawData = <<>>
    /\ currentYear = 2026
    /\ canonIn \in NameInputs
    /\ canonOut = NoCanon
    /\ NoSessions

\* predictor.cleanRegionName(name)
CleanByPredictor ==
    /\ ~canonOut.class.called
    /\ canonOut' = [canonOut EXCEPT !.class = Called(cleanRegionName(canonIn))]
    /\ UNCHANGED <<predictorVars, last, dashVars, tabVars, canonIn, filterVars, sessionVars>>

\* predictor.cleanRegionName(predictor.cleanRegionName(name))
CleanAgainByPredictor ==
    /\ canonOut.class.called /\ ~canonOut.class.threw
    /\ ~canonOut.classAgain.called
    /\ canonOut' = [canonOut EXCEPT
                       !.classAgain = Called(cleanRegionName(JStr(canonOut.class.s)))]
    /\ UNCHANGED <<predictorVars, last, dashVars, tabVars, canonIn, filterVars, sessionVars>>

\* cleanRegionName(name) of the dashboard
CleanByDashboard ==
    /\ ~canonOut.dashboard.called
    /\ canonOut' = [canonOut EXCEPT !.dashboard = Called(DashboardCleanRegionName(canonIn))]
    /\ UNCHANGED <<predictorVars, last, dashVars, tabVars, canonIn, filterVars, sessionVars>>

\* cleanRegionName(cleanRegionName(name)) of the dashboard
CleanAgainByDashboard ==
    /\ canonOut.dashboard.called /\ ~canonOut.dashboard.threw
    /\ ~canonOut.dashboardAgain.called
    /\ canonOut' = [canonOut EXCEPT
                       !.dashboardAgain =
                           Called(DashboardCleanRegionName(JStr(canonOut.dashboard.s)))]
    /\ UNCHANGED <<predictorVars, last, dashVars, tabVars, canonIn, filterVars, sessionVars>>

NextCanon ==
    \/ CleanByPredictor
    \/ CleanAgainByPredictor
    \/ CleanByDashboard
    \/ CleanAgainByDashboard

SpecCanon == InitCanon /\ [][NextCanon]_vars

----------------------------------------------------------------------------
(* PredictionTab of the regression variant (part_000, lines 1-236): its model
   is kept in window._regressionModel.  The regression library is outside the
   repository: a fitted model is represented by the matrices it was fitted
   to, a prediction by the model and the feature vector given to it. *)

\* Array.from(new Set(values)): the distinct values in order of first occurrence.
RECURSIVE UniqueInOrder(_)
UniqueInOrder(q) ==
    IF q = <<>> THEN <<>>
    ELSE LET NotLast(v) == v # q[Len(q)]
         IN  UniqueInOrder(SelectSeq(SubSeq(q, 1, Len(q) - 1), NotLast)) \o <<q[Len(q)]>>

\* allStates and allConditions of a PredictionTab with the given data.
allStatesOf(d) == UniqueInOrder([i \in 1..Len(d) |-> d[i]["regio1"]])
allConditionsOf(d) == UniqueInOrder([i \in 1..Len(d) |-> d[i]["condition"]])

\* oneHotEncode(value, categories)
oneHotEncode(value, categories) ==
    [i \in 1..Len(categories) |-> IF value = categories[i] THEN JInt(1) ELSE JInt(0)]

\* One row of x in the training effect; the records have no cellar field.
TrainingFeatures(row, d) ==
    <<row["livingSpace"], row["noRooms"], row["yearConstructed"]>>
    \o oneHotEncode(row["condition"], allConditionsOf(d))
    \o oneHotEncode(row["regio1"], allStatesOf(d))
    \o <<JInt(boolToNum(row["balcony"])), JInt(boolToNum(Undefined)),
         JInt(boolToNum(row["lift"])), JInt(boolToNum(row["garden"]))>>

\* new MultivariateLinearRegression(x, y)
FittedModel(d) ==
    [trained |-> TRUE,
     x |-> [i \in 1..Len(d) |-> TrainingFeatures(d[i], d)],
     y |-> [i \in 1..Len(d) |-> <<d[i]["totalRent"]>>]]

\* The fields of predictionInput the user fills in, and what is typed.
InputNames == {"livingSpace", "noRooms", "yearConstructed", "condition"}

Typed(name) ==
    CASE name = "livingSpace" -> <<"8", "0">>
      [] name = "noRooms" -> <<"3">>
      [] name = "yearConstructed" -> <<"1", "9", "9", "0">>
      [] name = "condition" -> <<"g", "o", "o", "d">>

\* useState({ livingSpace: '', ..., regio1: states[0] or '', balcony: '', ... })
InitialInput(d) ==
    [f \in InputNames \cup {"regio1", "balcony", "cellar", "lift", "garden"} |->
        IF f = "regio1" /\ Len(allStatesOf(d)) > 0 THEN allStatesOf(d)[1].s ELSE <<>>]

\* !isNaN(text)
IsNumberText(text) == Number(text).t = "number"

\* The validity test of predictRent.
InputValid(inp, selectedState) ==
    /\ inp["livingSpace"] # <<>> /\ inp["noRooms"] # <<>> /\ inp["yearConstructed"] # <<>>
    /\ inp["condition"] # <<>> /\ selectedState # <<>>
    /\ IsNumberText(inp["livingSpace"]) /\ IsNumberText(inp["noRooms"])
    /\ IsNumberText(inp["yearConstructed"])

YesToNum(text) == IF text = <<"Y", "e", "s">> THEN JInt(1) ELSE JInt(0)

\* (regio1 === 'All' && allStates.length > 0) ? allStates[0] : regio1
SelectedState(inp, d) ==
    IF inp["regio1"] = <<"A", "l", "l">> /\ Len(allStatesOf(d)) > 0
    THEN allStatesOf(d)[1].s ELSE inp["regio1"]

\* inputFeatures of predictRent
InputFeatures(inp, d) ==
    <<ParseFloatStr(inp["livingSpace"]), ParseFloatStr(inp["noRooms"]),
      ParseFloatStr(inp["yearConstructed"])>>
    \o oneHotEncode(JStr(inp["condition"]), allConditionsOf(d))
    \o oneHotEncode(JStr(SelectedState(inp, d)), allStatesOf(d))
    \o <<YesToNum(inp["balcony"]), YesToNum(inp["cellar"]), YesToNum(inp["lift"]),
         YesToNum(inp["garden"])>>

\* What predictRent gives to setPredictedRent.
predictRent(inp, d, regression) ==
    IF ~InputValid(inp, SelectedState(inp, d))
    THEN [kind |-> "Invalid input", model |-> NoModel, features |-> <<>>]
    ELSE IF ~regression.trained
    THEN [kind |-> "Model not trained", model |-> NoModel, features |-> <<>>]
    ELSE [kind |-> "prediction", model |-> regression, features |-> InputFeatures(inp, d)]

\* The record sets the parent gives to a PredictionTab.
SessionData ==
    {<<>>} \cup {<<a>> : a \in CleanedSamples}
        \cup {<<a, b>> : a \in CleanedSamples, b \in CleanedSamples}

InitSessions ==
    /\ Constructed
    /\ coeffs = CoeffsSmall
    /\ DashboardMounted
    /\ rawData = <<>>
    /\ currentYear = 2026
    /\ CanonIdle
    /\ NoSessions

RestOfPage == <<predictorVars, last, dashVars, tabVars, canonVars, filterVars>>

\* A PredictionTab is rendered with the given data; its training effect is
\* due after the first render.
MountSession(i, d) ==
    /\ ~sessions[i].mounted
    /\ sessions' = [sessions EXCEPT ![i] =
                       [NoSession EXCEPT !.mounted = TRUE, !.effectDue = TRUE, !.data = d,
                                         !.predictionInput = InitialInput(d)]]
    /\ UNCHANGED <<regressionModel, RestOfPage>>

\* The training effect of the regression variant.
SessionTrainingEffect(i) ==
    /\ sessions[i].mounted /\ sessions[i].effectDue
    /\ sessions' = [sessions EXCEPT ![i].effectDue = FALSE]
    /\ regressionModel' =
          IF Len(sessions[i].data) > 0 /\ Len(sessions[i].data) > 1
          THEN FittedModel(sessions[i].data)
          ELSE regressionModel
    /\ UNCHANGED RestOfPage

\* handleInputChange: the user fills in one field.
HandleInputChange(i, name) ==
    /\ sessions[i].mounted /\ ~sessions[i].effectDue
    /\ sessions[i].predictionInput[name] = <<>>
    /\ sessions' = [sessions EXCEPT ![i].predictionInput[name] = Typed(name)]
    /\ UNCHANGED <<regressionModel, RestOfPage>>

\* The Predict button: predictRent()
PredictRent(i) ==
    /\ sessions[i].mounted /\ ~sessions[i].effectDue
    /\ sessions' = [sessions EXCEPT ![i].predictedRent =
                       predictRent(sessions[i].predictionInput, sessions[i].data,
                                   regressionModel)]
    /\ UNCHANGED <<regressionModel, RestOfPage>>

NextSessions ==
    \/ \E i \in SessionIds, d \in SessionData : MountSession(i, d)
    \/ \E i \in SessionIds : SessionTrainingEffect(i)
    \/ \E i \in SessionIds, name \in InputNames : HandleInputChange(i, name)
    \/ \E i \in SessionIds : PredictRent(i)

SpecSessions == InitSessions /\ [][NextSessions]_vars

----------------------------------------------------------------------------
(* The dashboard after loading: region filter and chart data *)

MaxListings == 6

\* CSV rows of two regions, two decades and three conditions (one missing).
DashRawRows ==
    { RawBase,
      With(RawBase, [totalRent |-> NumStr(1000), yearConstructed |-> NumStr(1995),
                     condition |-> JStr(<<"N", "e", "g", "o", "t", "i", "a", "b", "l", "e">>)]),
      With(RawBase, [totalRent |-> NumStr(600), yearConstructed |-> NumStr(2001),
                     regio1 |-> JStr(NameMuBad), condition |-> Undefined]) }

InitDash ==
    /\ Constructed
    /\ coeffs = CoeffsSmall
    /\ DashboardMounted
    /\ rawData \in SeqsUpTo(DashRawRows, MaxListings)
    /\ currentYear = 2026
    /\ CanonIdle
    /\ NoSessions

\* The filter card is on the page: loading is over and the first tab is shown.
FilterShown == ~loading /\ tabValue = 0

\* The menu items the user can click: 'All', and the regions unless disabled.
MenuItems ==
    {AllName} \cup
    (IF Includes(selectedStates, AllName) THEN {}
     ELSE {allStates(dashData)[k] : k \in 1..Len(allStates(dashData))})

\* onChange of the region Select: the user clicks a menu item.
HandleRegionChange(item) ==
    /\ FilterShown
    /\ item \in MenuItems
    /\ picked' = Toggled(selectedStates, item)
    /\ selectedStates' = handleRegionChange(picked', selectedStates, allStates(dashData))
    /\ charts' = NotRendered
    /\ last' = [NoCall EXCEPT !.op = "handleRegionChange"]
    /\ UNCHANGED <<predictorVars, dashVars, tabVars, canonVars, sessionVars>>

\* The chips shown by renderValue: none for 'All' or for an empty selection.
Chips ==
    IF Includes(selectedStates, AllName) \/ Len(selectedStates) = 0 THEN {}
    ELSE {selectedStates[k] : k \in 1..Len(selectedStates)}

\* onDelete of a chip.
HandleDeleteState(chip) ==
    /\ FilterShown
    /\ chip \in Chips
    /\ selectedStates' = handleDeleteState(chip, selectedStates)
    /\ charts' = NotRendered
    /\ last' = [NoCall EXCEPT !.op = "handleDeleteState"]
    /\ UNCHANGED <<predictorVars, dashVars, tabVars, canonVars, picked, sessionVars>>

\* The render that follows a state change computes the chart data.
DashboardRender ==
    /\ ~loading
    /\ ~charts.rendered
    /\ \E fd \in {filteredData(dashData, selectedStates)} :
          charts' = [rendered |-> TRUE,
                     decades |-> rentByConstructionYearData(fd),
                     donut |-> conditionDonutData(dashData, fd)]
    /\ last' = [NoCall EXCEPT !.op = "render"]
    /\ UNCHANGED <<predictorVars, dashVars, tabVars, canonVars, selectedStates, picked,
                   sessionVars>>

NextDash ==
    \/ ParseComplete
    \/ ParseError
    \/ \E item \in {AllName, NameSH, NameMu} : HandleRegionChange(item)
    \/ \E chip \in {NameSH, NameMu} : HandleDeleteState(chip)
    \/ DashboardRender

SpecDash == InitDash /\ [][NextDash]_vars

----------------------------------------------------------------------------
(* Vocabulary of the claims *)

\* n is an integer nearest to the rational x.
Nearest(n, x) == 2 * Abs(n * x.den - x.num) <= x.den

\* A scenario whose fields have the types of a PredictionScenario: numbers,
\* booleans, and a region name (regio1) that is a string or left out.
IsTyped(row) ==
    /\ row["livingSpace"].t = "number"
    /\ row["rooms"].t = "number"
    /\ \A k \in 1..3 : row[Amenities[k]].t = "boolean"
    /\ row["regio1"].t \in {"string", "undefined"}

\* The canonical region of a scenario or record: 'Unknown' when the name is
\* missing or empty, the repaired name otherwise.
CanonRegion(row) ==
    IF row["regio1"].t = "string" /\ row["regio1"].s # <<>>
    THEN ReplaceChain(row["regio1"].s, 1)
    ELSE UnknownName

\* The multiplier stored for the scenario's region, 1.0 when there is none.
StoredMultiplier(row) ==
    IF CanonRegion(row) \in DOMAIN regionMultipliers
    THEN regionMultipliers[CanonRegion(row)]
    ELSE RInt(1)

\* raw = base + livingSpaceCoeff * livingSpace + roomsCoeff * rooms + amenities
RawRent(row) ==
    LET amen(a) == IF row[a] = JBool(TRUE) THEN coeffs[a] ELSE RInt(0)
    IN  RAdd(RAdd(coeffs.base,
                  RAdd(RMul(coeffs.livingSpace, row["livingSpace"].q),
                       RMul(coeffs.rooms, row["rooms"].q))),
             RAdd(amen("balcony"), RAdd(amen("garden"), amen("lift"))))

NonEmptyArg(arg) == arg.isArray /\ Len(arg.rows) > 0

\* The canonical regions occurring in a record array.
RegionsOf(d) == {CanonRegion(d[i]) : i \in 1..Len(d)}

\* Sum and count of totalRent over the records of one canonical region.
RECURSIVE GroupSum(_, _)
GroupSum(d, region) ==
    IF d = <<>> THEN RInt(0)
    ELSE RAdd(IF CanonRegion(Head(d)) = region THEN Head(d)["totalRent"].q ELSE RInt(0),
              GroupSum(Tail(d), region))

GroupSize(d, region) == Cardinality({i \in 1..Len(d) : CanonRegion(d[i]) = region})

\* The multiplier the spec assigns to a region of d: mean / 1200, or 1.0.
GroupMultiplier(d, region) ==
    LET mean == RDivInt(GroupSum(d, region), GroupSize(d, region))
    IN  IF RPos(mean) THEN RDivInt(mean, 1200) ELSE RInt(1)

----------------------------------------------------------------------------
(* C1: for a typed scenario, predict returns the integer nearest to
   raw * m, where raw is the linear formula over the scenario's fields and
   m is the multiplier stored for its canonical region, 1.0 if none. *)
C1_PredictFormula ==
    (last.op = "predict" /\ IsTyped(last.row)) =>
        /\ ~last.threw
        /\ Nearest(last.rent, RMul(RawRent(last.row), StoredMultiplier(last.row)))

\* A prediction for a trained region whose multiplier is not 1, with an
\* amenity switched on and a product that needs rounding.
C1_Witness ==
    /\ last.op = "predict" /\ IsTyped(last.row)
    /\ CanonRegion(last.row) \in DOMAIN regionMultipliers
    /\ StoredMultiplier(last.row) # RInt(1)
    /\ \E k \in 1..3 : last.row[Amenities[k]] = JBool(TRUE)
    /\ ~RIsInt(RMul(RawRent(last.row), StoredMultiplier(last.row)))

(* C2: after train(records) with a non-empty array, the multiplier table
   has exactly one entry per canonical region occurring in records, and each
   entry is mean(totalRent of the group) / 1200 if that mean is positive,
   else 1.0. *)
C2_TableIsGroupMeans ==
    (last.op = "train" /\ NonEmptyArg(last.arg) /\ ~last.threw) =>
        /\ DOMAIN regionMultipliers = RegionsOf(last.arg.rows)
        /\ \A r \in DOMAIN regionMultipliers :
              regionMultipliers[r] = GroupMultiplier(last.arg.rows, r)

(* C3: after train(A) and then train(B), B non-empty, the table is the one
   a freshly constructed predictor has after train(B). *)
C3_RetrainReplaces ==
    isTrained =>
        regionMultipliers =
            [r \in RegionsOf(data) |-> GroupMultiplier(data, r)]

(* C4: forcing one amenity to true instead of false, all else equal, changes
   the prediction by coefficient[amenity] * multiplier[region], up to 1. *)
C4_AmenityDelta ==
    (last.op = "predict" /\ ~last.threw) =>
        \A k \in 1..3 :
            LET a == Amenities[k]
                yes == predict(Self, With(last.row, [x \in {a} |-> JBool(TRUE)])).rent
                no == predict(Self, With(last.row, [x \in {a} |-> JBool(FALSE)])).rent
                exact == RMul(coeffs[a], StoredMultiplier(last.row))
            IN  Abs((yes - no) * exact.den - exact.num) <= exact.den

\* A prediction for a trained region where coefficient * multiplier is not
\* an integer, so that rounding is in play.
C4_Witness ==
    /\ last.op = "predict" /\ ~last.threw
    /\ CanonRegion(last.row) \in DOMAIN regionMultipliers
    /\ \E k \in 1..3 : ~RIsInt(RMul(coeffs[Amenities[k]], StoredMultiplier(last.row)))

\* The records that qualify for the impact estimate: positive living space
\* and a positive number of rooms (noRooms).
Qualifies(rec) == RPos(rec["livingSpace"].q) /\ RPos(rec["noRooms"].q)

\* Mean over the qualifying records of predict(amenity on) - predict(off).
MeanDelta(a) ==
    LET rows == SelectSeq(data, Qualifies)
        delta(rec) == predict(Self, With(rec, [x \in {a} |-> JBool(TRUE)])).rent
                      - predict(Self, With(rec, [x \in {a} |-> JBool(FALSE)])).rent
    IN  IF rows = <<>> THEN RInt(0)
        ELSE RDivInt(SumSeq([i \in 1..Len(rows) |-> RInt(delta(rows[i]))]), Len(rows))

FromNormalizer(d) == \A i \in 1..Len(d) : d[i] \in CleanedSamples

(* C5: for a model trained on normalizer records, the reported impact of
   each amenity is the rounded mean, over the records with livingSpace > 0
   and noRooms > 0, of predict(amenity true) - predict(amenity false). *)
C5_ImpactIsMeanDelta ==
    (last.op = "getFeatureImpacts" /\ isTrained /\ FromNormalizer(data)) =>
        \A k \in 1..3 : last.impacts[Amenities[k]] = MathRound(MeanDelta(Amenities[k]))


\* What the claim calls missing, non-numeric and the numeric value of a field.
IsMissing(v) == v.t = "undefined" \/ (v.t = "string" /\ v.s = <<>>)
IsNonNumeric(v) == parseFloat(v).t = "nan"
NumericValue(v) == IF IsNonNumeric(v) THEN RInt(0) ELSE parseFloat(v).q

\* A required field that is missing, non-numeric or not positive.
BadRequired(v) == IsMissing(v) \/ IsNonNumeric(v) \/ ~RPos(NumericValue(v))

\* The rejection rule of the normalizer as the spec states it.
IsRejected(row, year) ==
    \/ BadRequired(row["totalRent"])
    \/ BadRequired(row["livingSpace"])
    \/ ~RLeq(RInt(1800), NumericValue(row["yearConstructed"]))
    \/ ~RLeq(NumericValue(row["yearConstructed"]), RInt(year))

KeptRows ==
    LET Keep(row) == ~IsRejected(row, currentYear)
    IN  SelectSeq(rawData, Keep)

(* C6: the normalizer's output is, in input order, one record per input row
   that is not rejected; a row is rejected iff totalRent or livingSpace is
   missing, non-numeric or <= 0, or yearConstructed (default 0) is outside
   [1800, currentYear]; the output is never longer than the input. *)
C6_KeepsExactlyValidRows ==
    (last.op = "complete") =>
        /\ Len(dashData) <= Len(rawData)
        /\ Len(dashData) = Len(KeptRows)
        /\ \A i \in 1..Len(dashData) : dashData[i] = CleanRow(KeptRows[i])

\* A load in which a rejected row precedes a kept one.
C6_Witness ==
    /\ last.op = "complete"
    /\ Len(rawData) >= 2
    /\ IsRejected(rawData[1], currentYear)
    /\ ~IsRejected(rawData[2], currentYear)
    /\ Len(dashData) >= 1
    /\ dashData[1] = CleanRow(rawData[2])

(* C7: every record of the working set has totalRent > 0, livingSpace > 0,
   baseRent, serviceCharge, heatingCosts and noRooms >= 0, and an integer
   yearConstructed in [1800, currentYear]. *)
C7_AllRangesHold ==
    \A i \in 1..Len(dashData) :
        LET rec == dashData[i]
        IN  /\ RPos(rec["totalRent"].q)
            /\ RPos(rec["livingSpace"].q)
            /\ \A f \in {"baseRent", "serviceCharge", "heatingCosts", "noRooms"} :
                  RLeq(RInt(0), rec[f].q)
            /\ RIsInt(rec["yearConstructed"].q)
            /\ RLeq(RInt(1800), rec["yearConstructed"].q)
            /\ RLeq(rec["yearConstructed"].q, RInt(currentYear))

(* C8: train with an empty or non-array input changes nothing: isTrained,
   the multiplier table, the stored data and the feature impacts keep their
   values, and a predictor that was only ever given such input is untrained. *)
C8_EmptyTrainIsNoOp ==
    /\ [][(last'.op = "train" /\ ~NonEmptyArg(last'.arg) /\ trainCalls' # trainCalls) =>
             /\ isTrained' = isTrained
             /\ regionMultipliers' = regionMultipliers
             /\ data' = data
             /\ featureImpacts' = featureImpacts]_vars
    /\ [](emptyOnly => ~isTrained)

\* An empty array given to a predictor that is already trained.
C8_Witness ==
    /\ last.op = "train"
    /\ last.arg.isArray /\ last.arg.rows = <<>>
    /\ isTrained
    /\ regionMultipliers # EmptyTable

\* A table holding 1.0 for every region a scenario can name.
AllOnesTable ==
    [r \in {CanonRegion(s) : s \in Scenarios} \cup {NameMu, UnknownName, BerlinName} |-> RInt(1)]

(* C9: on a predictor that was never trained, or only with empty input,
   predict gives the same outcome as on a predictor whose multiplier is 1.0
   for every region: the rounded raw rent. *)
C9_UntrainedIsNeutral ==
    (last.op = "predict" /\ emptyOnly) =>
        LET ref == predict([Self EXCEPT !.regionMultipliers = AllOnesTable], last.row)
        IN  /\ last.threw = ref.threw
            /\ last.rent = ref.rent
            /\ IsTyped(last.row) => Nearest(last.rent, RawRent(last.row))

\* A prediction after a train([]) for a region name the training data uses.
C9_Witness ==
    /\ last.op = "predict" /\ emptyOnly /\ trainCalls > 0
    /\ ~last.threw
    /\ last.row["regio1"] = JStr(NameMuBad)
    /\ last.rent > 0

(* C10: predict never throws, whatever the types of the scenario's fields. *)
C10_PredictNeverThrows ==
    (last.op = "predict") => ~last.threw

\* A number below zero.
IsNegative(v) == v.t = "number" /\ v.q.num < 0

\* The scenario with one field set to the number 0.
WithZero(row, f) == With(row, [x \in {f} |-> JInt(0)])

(* C11: in predict a negative livingSpace or rooms contributes 0 to the raw
   rent, as a missing value does: the prediction equals the prediction for
   the same scenario with that field set to 0, and so is never lower. *)
C11_NegativeCountsAsZero ==
    (last.op = "predict" /\ ~last.threw) =>
        \A f \in {"livingSpace", "rooms"} :
            IsNegative(last.row[f]) =>
                /\ last.rent = predict(Self, WithZero(last.row, f)).rent
                /\ last.rent >= predict(Self, WithZero(last.row, f)).rent

\* The rule of the specification: boolean true, or a string that is "true"
\* or "yes" when case is ignored.
CountsAsTrue(v) ==
    \/ v = JBool(TRUE)
    \/ v.t = "string" /\ toLowerCase(v.s) \in {<<"t", "r", "u", "e">>, <<"y", "e", "s">>}

\* The scenario with every amenity replaced by the boolean the rule gives.
Classified(row) ==
    With(row, [balcony |-> JBool(CountsAsTrue(row["balcony"])),
               garden |-> JBool(CountsAsTrue(row["garden"])),
               lift |-> JBool(CountsAsTrue(row["lift"]))])

(* C12: an amenity value counts as true exactly when it is boolean true or
   a string equal to "true" or "yes" ignoring case: predict returns what it
   returns for the scenario classified by that rule, and the dashboard's
   feature comparison puts every amenity value in the group predict does. *)
C12_SameAmenityRule ==
    (last.op = "predict" /\ ~last.threw) =>
        /\ last.rent = predict(Self, Classified(last.row)).rent
        /\ \A k \in 1..3 :
              /\ AmenityOn(last.row[Amenities[k]]) = CountsAsTrue(last.row[Amenities[k]])
              /\ FeatureYes(last.row[Amenities[k]]) = AmenityOn(last.row[Amenities[k]])

\* The eight scenarios as the specification names them: (balcony, garden, lift).
NamedCombos ==
    [n \in {"All true", "All false", "Balcony", "No Balcony", "Garden", "No Garden",
            "Lift", "No Lift"} |->
        CASE n = "All true" -> <<TRUE, TRUE, TRUE>>
          [] n = "All false" -> <<FALSE, FALSE, FALSE>>
          [] n = "Balcony" -> <<TRUE, FALSE, FALSE>>
          [] n = "No Balcony" -> <<FALSE, TRUE, TRUE>>
          [] n = "Garden" -> <<FALSE, TRUE, FALSE>>
          [] n = "No Garden" -> <<TRUE, FALSE, TRUE>>
          [] n = "Lift" -> <<FALSE, FALSE, TRUE>>
          [] n = "No Lift" -> <<TRUE, TRUE, FALSE>>]

\* predict for the inputs of the last call with the amenities of a named scenario.
RentOfCombo(n) ==
    predict(Self, With(last.row, [balcony |-> JBool(NamedCombos[n][1]),
                                  garden |-> JBool(NamedCombos[n][2]),
                                  lift |-> JBool(NamedCombos[n][3])])).rent

(* C13: getSixPredictions(livingSpace, rooms, region) returns exactly eight
   results, one per named scenario, each rent being predict of the same
   (livingSpace, rooms, region) with that scenario's amenity combination. *)
C13_EightScenarios ==
    (last.op = "getSixPredictions" /\ ~last.threw) =>
        /\ Len(last.six) = 8
        /\ {last.six[i].name : i \in 1..Len(last.six)} = DOMAIN NamedCombos
        /\ \A i \in 1..Len(last.six) : last.six[i].rent = RentOfCombo(last.six[i].name)

\* A comparison for a trained region with a multiplier other than 1, in
\* which the eight rents are pairwise different.
C13_Witness ==
    /\ last.op = "getSixPredictions" /\ ~last.threw
    /\ CanonRegion(last.row) \in DOMAIN regionMultipliers
    /\ StoredMultiplier(last.row) # RInt(1)
    /\ Cardinality({last.six[i].rent : i \in 1..Len(last.six)}) = 8

\* The prediction effect has just computed the chart values.
ChartComputed == last.op = "predictionEffect" /\ last.six # <<>>

\* The value the chart shows for a named scenario.
ChartValue(n) ==
    LET i == CHOOSE i \in 1..Len(tabQueued.predictions) : tabQueued.predictions[i].name = n
    IN  tabQueued.predictions[i].rent

(* C14: in the chart view, Balcony, Garden and Lift show
   round((their rent + the All-true rent) / 2), and No Balcony, No Garden and
   No Lift show round((their rent + the All-false rent) / 2), for the
   livingSpace, rooms and region of the tab. *)
C14_ChartAverages ==
    ChartComputed =>
        /\ {tabQueued.predictions[i].name : i \in 1..Len(tabQueued.predictions)}
              = {"Balcony", "Garden", "Lift", "No Balcony", "No Garden", "No Lift"}
        /\ \A n \in {"Balcony", "Garden", "Lift"} :
              ChartValue(n) = MathRound(Rat(RentOfCombo(n) + RentOfCombo("All true"), 2))
        /\ \A n \in {"No Balcony", "No Garden", "No Lift"} :
              ChartValue(n) = MathRound(Rat(RentOfCombo(n) + RentOfCombo("All false"), 2))

\* Chart values for a region with a multiplier other than 1 and a changed
\* living space, where a sum of two rents is odd and the half is rounded.
C14_Witness ==
    /\ ChartComputed
    /\ StoredMultiplier(last.row) # RInt(1)
    /\ tab.livingSpace # JInt(80)
    /\ \E n \in {"Balcony", "Garden", "Lift"} :
          (RentOfCombo(n) + RentOfCombo("All true")) % 2 = 1
    /\ \E n \in {"No Balcony", "No Garden", "No Lift"} :
          (RentOfCombo(n) + RentOfCombo("All false")) % 2 = 1

(* C15: train is idempotent: a train call that repeats the non-empty record
   array of the call just before it leaves the multiplier table and the
   stored feature impacts as that first call left them. *)
C15_TrainIdempotent ==
    [][(last'.op = "train" /\ last'.repeat /\ NonEmptyArg(last'.arg)) =>
          /\ ~last'.threw
          /\ regionMultipliers' = regionMultipliers
          /\ featureImpacts' = featureImpacts
          /\ data' = data]_vars

\* A repeated train over two records of one region, with a multiplier other
\* than 1 and impacts other than 0.
C15_Witness ==
    /\ last.op = "train" /\ last.repeat
    /\ Len(last.arg.rows) = 2
    /\ \E r \in DOMAIN regionMultipliers : regionMultipliers[r] # RInt(1)
    /\ featureImpacts # ZeroImpacts

\* The coefficients of the worked example.
ExampleCoeffs ==
    [base |-> RInt(800), livingSpace |-> Rat(82, 10), rooms |-> RInt(120),
     balcony |-> RInt(212), garden |-> RInt(65), lift |-> RInt(332)]

\* The input of the worked example, the balcony aside: 80 square metres,
\* 3 rooms, no garden, no lift, in a region whose multiplier is 1.0.
IsExample(row) ==
    /\ row["livingSpace"] = JInt(80) /\ row["rooms"] = JInt(3)
    /\ row["balcony"].t = "boolean"
    /\ row["garden"] = JBool(FALSE) /\ row["lift"] = JBool(FALSE)
    /\ row["regio1"].t \in {"string", "undefined"}
    /\ StoredMultiplier(row) = RInt(1)

(* C16: with coefficients {800, 8.2, 120, 212, 65, 332} and region
   multiplier 1.0, predict of 80 square metres and 3 rooms without amenities
   is 1816, and with a balcony 2028. *)
C16_WorkedExample ==
    (last.op = "predict" /\ coeffs = ExampleCoeffs /\ IsExample(last.row)) =>
        /\ ~last.threw
        /\ last.row["balcony"] = JBool(FALSE) => last.rent = 1816
        /\ last.row["balcony"] = JBool(TRUE) => last.rent = 2028

\* The example with a balcony, for a region the model was trained on whose
\* multiplier came out as 1.0.
C16_Witness ==
    /\ last.op = "predict" /\ coeffs = ExampleCoeffs /\ IsExample(last.row)
    /\ last.row["balcony"] = JBool(TRUE)
    /\ isTrained /\ CanonRegion(last.row) \in DOMAIN regionMultipliers

AllZero(impacts) == impacts.balcony = 0 /\ impacts.garden = 0 /\ impacts.lift = 0

ExactlyZero(impacts) ==
    impacts.balcony = RInt(0) /\ impacts.garden = RInt(0) /\ impacts.lift = RInt(0)

(* C17: a model that was constructed and given only empty input reports the
   impacts {balcony: 0, garden: 0, lift: 0}, directly after train([]) too,
   and the estimate over an empty record set is 0 for all three amenities. *)
C17_EmptyImpactsAreZero ==
    /\ (last.op = "getFeatureImpacts" /\ emptyOnly) => AllZero(last.impacts)
    /\ (last.op = "train" /\ last.arg.isArray /\ last.arg.rows = <<>> /\ emptyOnly) =>
          AllZero(getFeatureImpacts(Self))
    /\ ExactlyZero(calculateModelFeatureImpacts([Self EXCEPT !.data = <<>>]).impacts)

\* getFeatureImpacts called right after train([]) on a new predictor.
C17_Witness ==
    /\ last.op = "getFeatureImpacts"
    /\ last.arg.isArray /\ last.arg.rows = <<>>
    /\ trainCalls = 1 /\ emptyOnly
    /\ AllZero(last.impacts)

(* C18: canonicalize is idempotent: for every string over underscores,
   blanks, the mis-encoded sequences and the repaired characters, applying a
   canonicalizer to its own result returns that result. *)
C18_CanonIdempotent ==
    canonIn.t = "string" =>
        /\ canonOut.classAgain.called =>
              /\ ~canonOut.classAgain.threw
              /\ canonOut.classAgain.s = canonOut.class.s
        /\ canonOut.dashboardAgain.called =>
              /\ ~canonOut.dashboardAgain.threw
              /\ canonOut.dashboardAgain.s = canonOut.dashboard.s

\* Both canonicalizers applied twice to a name that holds a mis-encoded
\* sequence behind a lone first byte.
C18_Witness ==
    /\ canonIn = JStr(<<"A~", "A~", "1/4">>)
    /\ canonOut.classAgain.called /\ canonOut.dashboardAgain.called
    /\ canonOut.class.s # canonIn.s
    /\ Len(canonOut.class.s) < Len(canonIn.s)

(* C19: every region canonicalizer is total: for a missing or empty name it
   returns "Unknown", it never throws, and for a non-empty name it returns a
   non-empty string. *)
C19_CanonTotal ==
    canonIn.t \in {"string", "undefined"} =>
        /\ canonOut.class.called =>
              /\ ~canonOut.class.threw
              /\ IsMissing(canonIn) => canonOut.class.s = UnknownName
              /\ ~IsMissing(canonIn) => canonOut.class.s # <<>>
        /\ canonOut.dashboard.called =>
              /\ ~canonOut.dashboard.threw
              /\ IsMissing(canonIn) => canonOut.dashboard.s = UnknownName
              /\ ~IsMissing(canonIn) => canonOut.dashboard.s # <<>>

\* The load is over and the normalizer kept no record.
NoValidRecords == ~loading /\ Len(dashData) = 0

\* The prediction tab has settled on an empty record set: nothing is left to
\* run, the predictor is untrained, its table is empty, no chart is shown.
RunsOnNothing ==
    /\ TabIdle
    /\ ~tab.isModelTrained /\ ~isTrained
    /\ regionMultipliers = EmptyTable
    /\ tab.predictions = <<>>

(* C20: when ingestion yields zero valid records the engine reports a "no
   data" status and does not go on with an empty record set and an untrained
   model: the prediction tab never settles on such a load. *)
C20_NoDataIsNotSilent ==
    NoValidRecords => ~RunsOnNothing

(* C21: no model state is shared across sessions: a prediction made in one
   PredictionTab session uses the model fitted to that session's own
   records, whatever the other session has trained. *)
C21_SessionsIsolated ==
    \A i \in SessionIds :
        sessions[i].predictedRent.kind = "prediction" =>
            sessions[i].predictedRent.model = FittedModel(sessions[i].data)


----------------------------------------------------------------------------
(* C22: the decade list *)

\* The filtered records with a positive construction year and a positive
\* total rent whose year lies in the decade.
InDecade(dec) ==
    {i \in 1..Len(dashData) :
        /\ RowShown(dashData[i], selectedStates)
        /\ RPos(dashData[i]["yearConstructed"].q)
        /\ RPos(dashData[i]["totalRent"].q)
        /\ RLeq(RInt(dec), dashData[i]["yearConstructed"].q)
        /\ ~RLeq(RInt(dec + 10), dashData[i]["yearConstructed"].q)}

\* The mean total rent of those records.
DecadeMean(dec) ==
    RDivInt(SumSeq([i \in 1..Len(dashData) |->
                       IF i \in InDecade(dec) THEN dashData[i]["totalRent"].q ELSE RInt(0)]),
            Cardinality(InDecade(dec)))

DecadeNumbers == {10 * n : n \in 180..202}

\* The entries of the rendered list for the decade.
EntriesOf(dec) == {k \in 1..Len(charts.decades) : charts.decades[k].decadeNumber = dec}

\* The list holds a decade exactly when at least five records lie in it, once,
\* with their number as propertyCount.
DecadesListed ==
    /\ \A k \in 1..Len(charts.decades) : charts.decades[k].decadeNumber \in DecadeNumbers
    /\ \A dec \in DecadeNumbers :
          /\ Cardinality(EntriesOf(dec)) = (IF Cardinality(InDecade(dec)) >= 5 THEN 1 ELSE 0)
          /\ \A k \in EntriesOf(dec) :
                charts.decades[k].propertyCount = Cardinality(InDecade(dec))

\* C22 as stated: the decade list contains a decade exactly when at least five
\* filtered records with a positive year and a positive total rent lie in it;
\* propertyCount is their number and avgRent is their mean total rent.
C22_DecadeList ==
    charts.rendered =>
        /\ DecadesListed
        /\ \A dec \in DecadeNumbers : \A k \in EntriesOf(dec) :
              charts.decades[k].avgRent = DecadeMean(dec)

\* x is the number with two decimals nearest to y.
NearestCent(x, y) ==
    /\ RIsInt(RMul(x, RInt(100)))
    /\ Nearest(RMul(x, RInt(100)).num, RMul(y, RInt(100)))

\* C22 amended: as above, with avgRent the mean total rent rounded to two
\* decimals.
C22_DecadeListRounded ==
    charts.rendered =>
        /\ DecadesListed
        /\ \A dec \in DecadeNumbers : \A k \in EntriesOf(dec) :
              NearestCent(charts.decades[k].avgRent, DecadeMean(dec))

\* A decade with exactly five filtered records is listed next to a decade with
\* fewer that is not, while a region is filtered out.
C22_Witness ==
    /\ charts.rendered
    /\ Len(charts.decades) = 1
    /\ charts.decades[1].propertyCount = 5
    /\ Cardinality(InDecade(2000)) = 0
    /\ \E i \in 1..Len(dashData) : ~RowShown(dashData[i], selectedStates)
    /\ \E i, j \in InDecade(1990) :
          dashData[i]["yearConstructed"] # dashData[j]["yearConstructed"]

----------------------------------------------------------------------------
(* C23: the condition distribution *)

Shown == {i \in 1..Len(dashData) : RowShown(dashData[i], selectedStates)}

\* The condition categories that occur in the filtered records.
ShownConditions == {dashData[i]["condition"].s : i \in Shown}

\* The categories the distribution leaves out by design.
LeftOut(c) ==
    c = AllName \/ toLowerCase(c) = <<"n", "e", "g", "o", "t", "i", "a", "b", "l", "e">>

DonutOf(c) == {k \in 1..Len(charts.donut) : charts.donut[k].name = c}

\* The share of the category among the filtered records, in percent with one
\* decimal.
IsShareOf(p, c) ==
    /\ RIsInt(RMul(p, RInt(10)))
    /\ Nearest(RMul(p, RInt(10)).num,
               Rat(1000 * Cardinality({i \in Shown : dashData[i]["condition"].s = c}),
                   Cardinality(Shown)))

\* C23: the condition distribution lists every condition category that occurs
\* in the filtered records, except "All" and the case variants of
\* "negotiable", once, with its count and its share of the filtered records;
\* no other category is omitted and none is added.
C23_ConditionDistribution ==
    charts.rendered =>
        /\ \A c \in ShownConditions : ~LeftOut(c) => Cardinality(DonutOf(c)) = 1
        /\ \A k \in 1..Len(charts.donut) :
              /\ charts.donut[k].name \in ShownConditions
              /\ ~LeftOut(charts.donut[k].name)
              /\ charts.donut[k].value =
                     Cardinality({i \in Shown :
                                     dashData[i]["condition"].s = charts.donut[k].name})
              /\ IsShareOf(charts.donut[k].percentage, charts.donut[k].name)

----------------------------------------------------------------------------
(* C29: the region filter *)

RegionNames == {allStates(dashData)[k] : k \in 1..Len(allStates(dashData))}

Elements(q) == {q[k] : k \in 1..Len(q)}

\* The last change event had every region checked one by one.
PickedEveryRegion ==
    /\ last.op = "handleRegionChange"
    /\ RegionNames # {}
    /\ ~Includes(picked, AllName)
    /\ Elements(picked) = RegionNames

\* C29: after any sequence of handleRegionChange and handleDeleteState calls,
\* selectedStates is exactly ['All'] or a list of region names without 'All';
\* choosing every region one by one collapses to ['All']; and the empty
\* selection shows the same records as ['All'], namely all of them.
C29_RegionFilter ==
    /\ \/ selectedStates = <<AllName>>
       \/ /\ ~Includes(selectedStates, AllName)
          /\ Elements(selectedStates) \subseteq RegionNames
    /\ PickedEveryRegion => selectedStates = <<AllName>>
    /\ filteredData(dashData, <<>>) = dashData
    /\ filteredData(dashData, <<AllName>>) = dashData

\* Both regions were checked one after the other and the selection collapsed.
C29_Witness ==
    /\ PickedEveryRegion
    /\ Len(picked) = 2
    /\ selectedStates = <<AllName>>
    /\ Len(dashData) > 0

----------------------------------------------------------------------------
(* C24: the region field as fallback *)

\* A scenario with numbers and booleans that names its region only in the
\* `region` field, and the region is in the multiplier table.
RegionFieldOnly(row) ==
    /\ row["livingSpace"].t = "number"
    /\ row["rooms"].t = "number"
    /\ \A k \in 1..3 : row[Amenities[k]].t = "boolean"
    /\ row["regio1"] = Undefined
    /\ row["region"].t = "string"
    /\ ReplaceChain(row["region"].s, 1) \in DOMAIN regionMultipliers

\* C24: when regio1 is absent, predict resolves the region from the `region`
\* field: the scenario is predicted with the multiplier stored for that region.
C24_RegionFieldUsed ==
    (last.op = "predict" /\ RegionFieldOnly(last.row)) =>
        /\ ~last.threw
        /\ Nearest(last.rent,
                   RMul(RawRent(last.row),
                        regionMultipliers[ReplaceChain(last.row["region"].s, 1)]))

----------------------------------------------------------------------------
(* C25: predict and getSixPredictions are read-only *)

\* The step was a call of predict or of getSixPredictions.
ReadCall == last' # last /\ last'.op \in {"predict", "getSixPredictions"}

\* C25: a call of predict or getSixPredictions leaves isTrained, the
\* multiplier table, the coefficients, the stored data and the feature impacts
\* as they were.
C25_PredictIsReadOnly ==
    [][ReadCall =>
          /\ isTrained' = isTrained
          /\ regionMultipliers' = regionMultipliers
          /\ coeffs' = coeffs
          /\ data' = data
          /\ featureImpacts' = featureImpacts]_vars

\* A scenario for a region that is not in the table was predicted on a
\* trained predictor.
C25_Witness ==
    /\ last.op = "predict"
    /\ ~last.threw
    /\ isTrained
    /\ Len(data) > 0
    /\ CanonRegion(last.row) \notin DOMAIN regionMultipliers

----------------------------------------------------------------------------
(* C26: the training flag and the multiplier table *)

\* C26: in every state reached by train and predict calls, isTrained holds
\* exactly when the multiplier table is non-empty, every stored multiplier is
\* strictly positive, and isTrained never returns from true to false.
C26_TrainedInvariants ==
    /\ [](isTrained <=> regionMultipliers # EmptyTable)
    /\ [](\A r \in DOMAIN regionMultipliers : RPos(regionMultipliers[r]))
    /\ [][isTrained => isTrained']_vars

\* A predictor trained twice, last on records without any rent, was asked for
\* a prediction.
C26_Witness ==
    /\ last.op = "predict"
    /\ isTrained
    /\ trainCalls >= 2
    /\ Len(data) > 0
    /\ \A i \in 1..Len(data) : ~RPos(RentTerm(data[i]))
    /\ Cardinality(DOMAIN regionMultipliers) >= 2

----------------------------------------------------------------------------
(* C27: PredictionTab trains once and predicts only afterwards *)

----------------------------------------------------------------------------
(* C30: the averaged Yes and No values of an amenity *)

\* The chart names of the Yes and the No scenario of an amenity.
YesName == [balcony |-> "Balcony", garden |-> "Garden", lift |-> "Lift"]
NoName == [balcony |-> "No Balcony", garden |-> "No Garden", lift |-> "No Lift"]

\* Averaged Yes value minus averaged No value of the amenity.
YesMinusNo(a) == ChartValue(YesName[a]) - ChartValue(NoName[a])

\* The amenity's coefficient times the multiplier of the tab's region.
AmenityWorth(a) == RMul(coeffs[a], StoredMultiplier(last.row))

\* C30: for every amenity and every (livingSpace, rooms, region) of the tab,
\* the averaged Yes value minus the averaged No value differs from
\* coefficient[amenity] * multiplier[region] by at most 2, and the averaged
\* Yes value is never below the averaged No value.
C30_YesMinusNo ==
    ChartComputed =>
        \A k \in 1..3 :
            /\ Abs(YesMinusNo(Amenities[k]) * AmenityWorth(Amenities[k]).den
                     - AmenityWorth(Amenities[k]).num)
                   <= 2 * AmenityWorth(Amenities[k]).den
            /\ YesMinusNo(Amenities[k]) >= 0

\* Chart values for a region whose multiplier is not 1 where rounding shows:
\* the difference of an amenity is not its coefficient times the multiplier.
C30_Witness ==
    /\ ChartComputed
    /\ StoredMultiplier(last.row) # RInt(1)
    /\ tab.livingSpace = JInt(57)
    /\ \E k \in 1..3 : RInt(YesMinusNo(Amenities[k])) # AmenityWorth(Amenities[k])

----------------------------------------------------------------------------
(* C28: PredictionTab settles and its chart follows the inputs *)

\* PredictionTab has been mounted with a non-empty dataset and has not yet
\* rendered a trained model.
ReceivedData == tabValue = 1 /\ Len(dashData) > 0 /\ ~tab.isModelTrained

\* The rendered tab is trained, its region is the first canonical region of
\* the dataset in sorted order, and it has chart data.
Settled ==
    /\ tabValue = 1
    /\ tab.isModelTrained
    /\ tab.region.t = "string"
    /\ tab.region.s \in RegionsOf(dashData)
    /\ \A r \in RegionsOf(dashData) : StrLeq(tab.region.s, r)
    /\ tab.predictions # <<>>

\* The chart data of the rendered tab is the one of its rendered inputs.
ChartCurrent ==
    tab.predictions =
        adjustedPredictions(getSixPredictions(Self, tab.livingSpace, tab.rooms, tab.region).list)

\* C28: once PredictionTab has a non-empty dataset it eventually (unless it is
\* unmounted first) is trained, with the first canonical region in sorted
\* order selected and non-empty chart data; and from then on, that is whenever
\* it shows chart data, the chart data corresponds to the current livingSpace,
\* rooms and region.
C28_SettlesAndFollows ==
    /\ ReceivedData ~> (Settled \/ tabValue = 0)
    /\ []((tabValue = 1 /\ tab.predictions # <<>>) => ChartCurrent)
====
